---- MODULE Spec2Model ----
(***************************************************************************)
(* Model of three tools of aden_tools.                                      *)
(*                                                                         *)
(* parquet_tool.py: the identifier validator, the query builder            *)
(* _build_query, and the handlers parquet_read, parquet_write and          *)
(* parquet_info with the file system and the embedded engine they use.     *)
(* web_search_tool.py: web_search and its module-level response cache.     *)
(* email_tool.py: send_email, from the normalisation of the recipients to  *)
(* the payload handed to the provider.                                     *)
(*                                                                         *)
(* Spec explores the query builder through parquet_read on a fixed set of  *)
(* files; FileSpec lets the three Parquet handlers run one after another   *)
(* on a file system they change; BuilderSpec interleaves the steps of      *)
(* concurrent _build_query invocations; SearchSpec runs web_search calls   *)
(* one after another as the clock advances; EmailSpec runs send_email.     *)
(*                                                                         *)
(* Python strings are TLA+ strings; the character at position i of s is    *)
(* SubSeq(s, i, i).  An Optional value is a sequence of length at most     *)
(* one: None is <<>> and a present value x is <<x>>.  A filter value is a  *)
(* tagged record, so that isinstance(value, list) can be decided.          *)
(***************************************************************************)
EXTENDS Integers, Sequences, FiniteSets, TLC

VARIABLES
    call,     \* the most recent tool invocation and its arguments
    built,    \* what _build_query returned in that invocation (None if not reached)
    engine,   \* the (statement, parameters) pairs submitted to the engine by it
    result,   \* the value returned to the caller
    files,    \* the file system: resolved path |-> the Parquet file stored there
    io,       \* the steps of that invocation on the world around the handler, in order
    heap,     \* the list objects shared by concurrent _build_query invocations
    frames,   \* the local variables of each of these invocations
    CACHE_TTL_SECONDS,  \* read from the environment when the module is imported
    CACHE_MAX_SIZE,     \* read from the environment when the module is imported
    _CACHE,   \* the entries (key, timestamp, payload) of the dict, in insertion order
    clock,    \* what time.time() returns
    outbox    \* the messages handed to a mail provider by the most recent send_email

parquet_vars == <<built, engine, files, io>>
builder_vars == <<heap, frames>>
search_vars == <<CACHE_TTL_SECONDS, CACHE_MAX_SIZE, _CACHE, clock>>
email_vars == <<outbox>>

vars == <<call, result, parquet_vars, builder_vars, search_vars, email_vars>>

None == <<>>
Some(x) == <<x>>

(***************************************************************************)
(* Bounds of the explored input space.                                     *)
(***************************************************************************)
\* total number of non-default features of one request: list entries,
\* a given limit, a nonzero offset, a non-default path, a missing engine
MaxItems == 2
\* longest value list of an IN filter
MaxInLen == 2
\* longest string handed to _validate_identifier on its own
MaxNameLen == 3
\* most rows handed to one parquet_write
MaxRows == 2
\* concurrent invocations of _build_query
MaxThreads == 2
\* the last instant of the clock
MaxClock == 3

(***************************************************************************)
(* Strings.                                                                *)
(***************************************************************************)
Ch(s, i) == SubSeq(s, i, i)

UPPERCASE == "ABCDEFGHIJKLMNOPQRSTUVWXYZ"
LOWERCASE == "abcdefghijklmnopqrstuvwxyz"
DIGITS == "0123456789"

CharsOf(s) == {Ch(s, i) : i \in 1..Len(s)}

UPPER_CHARS == CharsOf(UPPERCASE)
LOWER_CHARS == CharsOf(LOWERCASE)
DIGIT_CHARS == CharsOf(DIGITS)

\* the case mappings of the ASCII letters
TO_LOWER == [c \in UPPER_CHARS |->
                LET i == CHOOSE j \in 1..26 : Ch(UPPERCASE, j) = c IN Ch(LOWERCASE, i)]
TO_UPPER == [c \in LOWER_CHARS |->
                LET i == CHOOSE j \in 1..26 : Ch(LOWERCASE, j) = c IN Ch(UPPERCASE, i)]

lower_char(c) == IF c \in UPPER_CHARS THEN TO_LOWER[c] ELSE c

upper_char(c) == IF c \in LOWER_CHARS THEN TO_UPPER[c] ELSE c

RECURSIVE lower(_)
lower(s) == IF Len(s) = 0 THEN "" ELSE lower_char(Ch(s, 1)) \o lower(Tail(s))

RECURSIVE upper(_)
upper(s) == IF Len(s) = 0 THEN "" ELSE upper_char(Ch(s, 1)) \o upper(Tail(s))

endswith(s, suffix) ==
    /\ Len(s) >= Len(suffix)
    /\ SubSeq(s, Len(s) - Len(suffix) + 1, Len(s)) = suffix

\* sep.join(parts)
RECURSIVE join(_, _)
join(sep, parts) ==
    IF Len(parts) = 0 THEN ""
    ELSE IF Len(parts) = 1 THEN parts[1]
    ELSE parts[1] \o sep \o join(sep, Tail(parts))

\* ["?"] * n
Repeat(x, n) == [i \in 1..n |-> x]

(***************************************************************************)
(* Whitelists and the identifier pattern.                                  *)
(***************************************************************************)
ALLOWED_OPERATORS == {"=", "!=", ">", "<", ">=", "<=", "in", "like"}
ALLOWED_AGGREGATES == {"count", "sum", "avg", "min", "max"}
ALLOWED_ORDER == {"asc", "desc"}

\* [A-Za-z_]
IdentStart(c) == c \in UPPER_CHARS \/ c \in LOWER_CHARS \/ c = "_"
\* [A-Za-z0-9_]
IdentChar(c) == IdentStart(c) \/ c \in DIGIT_CHARS

\* the greedy [A-Za-z0-9_]* from position i: the last position it consumes
RECURSIVE IdentRun(_, _)
IdentRun(s, i) ==
    IF i <= Len(s) /\ IdentChar(Ch(s, i)) THEN IdentRun(s, i + 1) ELSE i - 1

\* "$" without re.MULTILINE, after k consumed characters: the end of the
\* string, or just before a newline that is the last character
DollarAt(s, k) ==
    \/ k = Len(s)
    \/ k = Len(s) - 1 /\ Ch(s, Len(s)) = "\n"

\* IDENTIFIER_RE.match(name): anchored at the start; the star cannot give
\* back characters, since "$" never matches before an identifier character
IDENTIFIER_RE_match(name) ==
    /\ Len(name) >= 1
    /\ IdentStart(Ch(name, 1))
    /\ DollarAt(name, IdentRun(name, 2))

_validate_identifier(name) == IDENTIFIER_RE_match(name)

\* the dict under another key than "error"
_error_invalid_identifier_message_key(name) ==
    [message |-> "Invalid column name: " \o name]

_error_invalid_identifier(name) == [error |-> "Invalid column name: " \o name]

(***************************************************************************)
(* _build_query.  A filter is [column, op, value], an aggregate is         *)
(* [column, op, alias] and an order entry is [column, direction], with     *)
(* direction an Optional (a missing key).  A missing "op" key reads as ""  *)
(* and a missing or None alias is falsy like "", so both are the string "".*)
(* A value is [int |-> n] or [list |-> <<n, ...>>], and so is a parameter, *)
(* or [str |-> s] for the source path.                                     *)
(***************************************************************************)
IsList(value) == "list" \in DOMAIN value

\* "not value" for a list value
IsEmptyList(value) == Len(value.list) = 0

\* the elements of a list value, as parameters
Elements(value) == [i \in 1..Len(value.list) |-> [int |-> value.list[i]]]

Min(S) == CHOOSE x \in S : \A y \in S : x <= y

\* the comparison made case-sensitive
Normalize_case_sensitive(s) == s

\* str(x.get("op", "")).lower(), str(entry.get("direction", "asc")).lower()
Normalize(s) == lower(s)

\* a single placeholder for the whole list
InCondition_one_placeholder(column, value) == column \o " IN (?)"

\* f"{column} IN ({placeholders})", one placeholder per element
InCondition(column, value) ==
    column \o " IN (" \o join(", ", Repeat("?", Len(value.list))) \o ")"

\* params.append(value) in place of params.extend(value)
Extend_as_append(params, value) == Append(params, value)

\* params.extend(value)
Extend(params, value) == params \o Elements(value)

\* "if limit:" in place of "if limit is not None:"
LimitGiven_truthy(limit) == limit # None /\ limit[1] # 0

\* "if limit is not None"
LimitGiven(limit) == limit # None

\* for col in cols: if not _validate_identifier(col): return None, error
\* the index of the column that returns, 0 if the loop runs to its end
FirstInvalid(cols) ==
    LET bad == {i \in 1..Len(cols) : ~_validate_identifier(cols[i])}
    IN  IF bad = {} THEN 0 ELSE Min(bad)

\* the loop over aggregates, from entry i on, select_parts built so far
RECURSIVE AggregateLoop(_, _, _)
AggregateLoop(aggregates, i, select_parts) ==
    IF i > Len(aggregates) THEN [error |-> None, select_parts |-> select_parts]
    ELSE
    LET agg == aggregates[i]
        column == agg.column
        func == Normalize(agg.op)
        alias == agg.alias
        expr == func \o "(" \o column \o ")"
    IN  IF column = "" \/ ~_validate_identifier(column)
        THEN [error |-> Some(_error_invalid_identifier(column)), select_parts |-> <<>>]
        ELSE IF func \notin ALLOWED_AGGREGATES
        THEN [error |-> Some([error |-> "Unsupported aggregate: " \o func]),
              select_parts |-> <<>>]
        ELSE IF alias # ""
        THEN IF ~_validate_identifier(alias)
             THEN [error |-> Some(_error_invalid_identifier(alias)), select_parts |-> <<>>]
             ELSE AggregateLoop(aggregates, i + 1,
                                Append(select_parts, expr \o " AS " \o alias))
        ELSE AggregateLoop(aggregates, i + 1, Append(select_parts, expr))

\* the aggregates validated and rendered without a group_by too
SelectParts_aggregates_always(selected_columns, group_by, aggregates) ==
    LET columns == IF Len(group_by) > 0 THEN group_by ELSE selected_columns
    IN  IF Len(aggregates) > 0 THEN AggregateLoop(aggregates, 1, columns)
        ELSE IF Len(columns) > 0 THEN [error |-> None, select_parts |-> columns]
        ELSE [error |-> None, select_parts |-> <<"*">>]

\* selected_columns taking precedence over group_by
SelectParts_selected_first(selected_columns, group_by, aggregates) ==
    IF Len(selected_columns) > 0
    THEN [error |-> None, select_parts |-> selected_columns]
    ELSE IF Len(group_by) > 0
    THEN IF Len(aggregates) > 0
         THEN AggregateLoop(aggregates, 1, group_by)
         ELSE [error |-> None, select_parts |-> group_by]
    ELSE [error |-> None, select_parts |-> <<"*">>]

\* the projection: select_parts, or the error of the aggregate loop
SelectParts(selected_columns, group_by, aggregates) ==
    IF Len(group_by) > 0
    THEN IF Len(aggregates) > 0
         THEN AggregateLoop(aggregates, 1, group_by)
         ELSE [error |-> None, select_parts |-> group_by]
    ELSE IF Len(selected_columns) > 0
    THEN [error |-> None, select_parts |-> selected_columns]
    ELSE [error |-> None, select_parts |-> <<"*">>]

\* the loop over filters, from entry i on
RECURSIVE FilterLoop(_, _, _, _)
FilterLoop(filters, i, where_parts, params) ==
    IF i > Len(filters)
    THEN [error |-> None, where_parts |-> where_parts, params |-> params]
    ELSE
    LET condition == filters[i]
        column == condition.column
        op == Normalize(condition.op)
        value == condition.value
        failed(e) == [error |-> Some(e), where_parts |-> <<>>, params |-> <<>>]
    IN  IF column = "" \/ ~_validate_identifier(column)
        THEN failed(_error_invalid_identifier(column))
        ELSE IF op \notin ALLOWED_OPERATORS
        THEN failed([error |-> "Unsupported operator: " \o op])
        ELSE IF op = "in"
        THEN IF ~IsList(value) \/ IsEmptyList(value)
             THEN failed([error |-> "IN operator requires a non-empty list value"])
             ELSE FilterLoop(filters, i + 1,
                             Append(where_parts, InCondition(column, value)),
                             Extend(params, value))
        ELSE FilterLoop(filters, i + 1,
                        Append(where_parts, column \o " " \o op \o " ?"),
                        Append(params, value))

\* the loop over order_by, from entry i on
RECURSIVE OrderLoop(_, _, _)
OrderLoop(order_by, i, order_parts) ==
    IF i > Len(order_by) THEN [error |-> None, order_parts |-> order_parts]
    ELSE
    LET entry == order_by[i]
        column == entry.column
        direction == Normalize(IF entry.direction = None THEN "asc"
                               ELSE entry.direction[1])
    IN  IF column = "" \/ ~_validate_identifier(column)
        THEN [error |-> Some(_error_invalid_identifier(column)), order_parts |-> <<>>]
        ELSE IF direction \notin ALLOWED_ORDER
        THEN [error |-> Some([error |-> "Unsupported order direction: " \o direction]),
              order_parts |-> <<>>]
        ELSE OrderLoop(order_by, i + 1,
                       Append(order_parts, column \o " " \o upper(direction)))

\* the ORDER BY clause appended before the GROUP BY clause
Assemble_order_before_group(table_expr, select_parts, where_parts, group_by, order_parts, limit, offset, params) ==
    LET q0 == "SELECT " \o join(", ", select_parts) \o " FROM " \o table_expr
        q1 == IF Len(where_parts) > 0
              THEN q0 \o " WHERE " \o join(" AND ", where_parts) ELSE q0
        q2 == IF Len(order_parts) > 0
              THEN q1 \o " ORDER BY " \o join(", ", order_parts) ELSE q1
        q3 == IF Len(group_by) > 0
              THEN q2 \o " GROUP BY " \o join(", ", group_by) ELSE q2
        q4 == IF LimitGiven(limit) THEN q3 \o " LIMIT ?" ELSE q3
        p4 == IF LimitGiven(limit) THEN Append(params, [int |-> limit[1]]) ELSE params
        q5 == IF offset # 0 THEN q4 \o " OFFSET ?" ELSE q4
        p5 == IF offset # 0 THEN Append(p4, [int |-> offset]) ELSE p4
    IN  <<Some(q5), [list |-> p5]>>

\* lines 114-129: the statement text and the final parameter list
Assemble(table_expr, select_parts, where_parts, group_by, order_parts, limit, offset, params) ==
    LET q0 == "SELECT " \o join(", ", select_parts) \o " FROM " \o table_expr
        q1 == IF Len(where_parts) > 0
              THEN q0 \o " WHERE " \o join(" AND ", where_parts) ELSE q0
        q2 == IF Len(group_by) > 0
              THEN q1 \o " GROUP BY " \o join(", ", group_by) ELSE q1
        q3 == IF Len(order_parts) > 0
              THEN q2 \o " ORDER BY " \o join(", ", order_parts) ELSE q2
        q4 == IF LimitGiven(limit) THEN q3 \o " LIMIT ?" ELSE q3
        p4 == IF LimitGiven(limit) THEN Append(params, [int |-> limit[1]]) ELSE params
        q5 == IF offset # 0 THEN q4 \o " OFFSET ?" ELSE q4
        p5 == IF offset # 0 THEN Append(p4, [int |-> offset]) ELSE p4
    IN  <<Some(q5), [list |-> p5]>>

\* returns <<Some(query), [list |-> params]>> or <<None, error dict>>: the
\* second component is tagged, a list or a dict with the key "error"
_build_query(table_expr, selected_columns, filters, group_by, order_by, limit, offset, aggregates) ==
    LET bad_sel == FirstInvalid(selected_columns)
        bad_grp == FirstInvalid(group_by)
        sel == SelectParts(selected_columns, group_by, aggregates)
        flt == FilterLoop(filters, 1, <<>>, <<>>)
        ord == OrderLoop(order_by, 1, <<>>)
    IN  IF bad_sel # 0
        THEN <<None, _error_invalid_identifier(selected_columns[bad_sel])>>
        ELSE IF bad_grp # 0
        THEN <<None, _error_invalid_identifier(group_by[bad_grp])>>
        ELSE IF sel.error # None THEN <<None, sel.error[1]>>
        ELSE IF flt.error # None THEN <<None, flt.error[1]>>
        ELSE IF ord.error # None THEN <<None, ord.error[1]>>
        ELSE Assemble(table_expr, sel.select_parts, flt.where_parts, group_by,
                      ord.order_parts, limit, offset, flt.params)

(***************************************************************************)
(* The collaborators of the handlers: the path resolver, the file system   *)
(* and the embedded engine.                                                *)
(***************************************************************************)
\* the first position where sub occurs in s, 0 if nowhere
Find(s, sub) ==
    LET at == {i \in 1..(Len(s) - Len(sub) + 1) : SubSeq(s, i, i + Len(sub) - 1) = sub}
    IN  IF at = {} THEN 0 ELSE Min(at)

Contains(s, sub) == Find(s, sub) # 0

startswith(s, prefix) == Len(s) >= Len(prefix) /\ SubSeq(s, 1, Len(prefix)) = prefix

\* s.split(sep)
RECURSIVE split(_, _)
split(s, sep) ==
    LET at == Find(s, sep)
    IN  IF at = 0 THEN <<s>>
        ELSE <<SubSeq(s, 1, at - 1)>> \o split(SubSeq(s, at + Len(sep), Len(s)), sep)

WORKSPACE == "/ws/"

\* get_secure_path: the sandboxed absolute path, or None when it raises
\* (a path that leaves the sandbox)
get_secure_path(path) ==
    IF Len(path) >= 3 /\ SubSeq(path, 1, 3) = "../" THEN None
    ELSE Some(WORKSPACE \o path)

\* the files of the sandbox at the start: resolved path |-> the columns of
\* the file and the number of rows stored in it
FILES == [p \in {"/ws/d.parquet", "/ws/D.PARQUET"} |-> [columns |-> <<"a", "b_1">>, rows |-> 3]]

\* os.path.exists
exists(fs, secure_path) == secure_path \in DOMAIN fs

TABLE_EXPR == "read_parquet(?)"
COUNT_QUERY == "SELECT COUNT(*) FROM read_parquet(?)"
DESCRIBE_QUERY == "DESCRIBE SELECT * FROM read_parquet(?)"
COPY_STATEMENT == "COPY data_df TO ? (FORMAT PARQUET)"

\* the path bound last instead of first
ReadParams_path_last(secure_path, params_or_error) ==
    params_or_error.list \o <<[str |-> secure_path]>>

\* params = [secure_path, *params_or_error]
ReadParams(secure_path, params_or_error) ==
    <<[str |-> secure_path]>> \o params_or_error.list

\* The engine's reply to one handler, chosen by the environment:
\*   fails    which of the statements the handler submits raises (0: none);
\*   dropped  how many rows of the file the WHERE conditions and the
\*            grouping of the statement take away.
\* the value bound to the k-th placeholder from the end
BoundFromEnd(params, k) == params[Len(params) - k].int

\* conn.execute(query, params).fetchdf(): the number of rows a statement of
\* _build_query yields on a file of n rows
RowsYielded(query, params, n, dropped) ==
    LET has_limit == Contains(query, " LIMIT ?")
        has_offset == Contains(query, " OFFSET ?")
        narrowed == Contains(query, " WHERE ") \/ Contains(query, " GROUP BY ")
        kept == IF narrowed /\ dropped < n THEN n - dropped
                ELSE IF narrowed THEN 0 ELSE n
        skipped == IF has_offset THEN BoundFromEnd(params, 0) ELSE 0
        left == IF kept > skipped THEN kept - skipped ELSE 0
        limit == BoundFromEnd(params, IF has_offset THEN 1 ELSE 0)
    IN  IF has_limit /\ limit < left THEN limit ELSE left

\* result.columns: the names of the select list, those of the file for *
ColumnYielded(item) ==
    LET at == Find(item, " AS ")
    IN  IF at = 0 THEN item ELSE SubSeq(item, at + 4, Len(item))

ColumnsYielded(query, file_columns) ==
    LET items == split(SubSeq(query, 8, Find(query, " FROM ") - 1), ", ")
    IN  IF items = <<"*">> THEN file_columns
        ELSE [i \in 1..Len(items) |-> ColumnYielded(items[i])]

\* the extension compared without folding the case
has_parquet_extension_case_sensitive(path) == endswith(path, ".parquet")

\* path.lower().endswith(".parquet")
has_parquet_extension(path) == endswith(lower(path), ".parquet")

\* the missing file reported as a failure of the read
file_not_found_as_failure(path) == [error |-> "Failed to read parquet: " \o path]

\* {"error": f"File not found: {path}"}
file_not_found(path) == [error |-> "File not found: " \o path]

\* the except clause of a handler letting the exception through
Caught_reraised(prefix, exc) == [raised |-> exc]

\* except Exception as exc: return {"error": f"<prefix>: {str(exc)}"}
Caught(prefix, exc) == [error |-> prefix \o ": " \o exc]

\* total_rows taken from the rows of the built statement
TotalRows_of_result(file, rows) == Len(rows)

\* conn.execute("SELECT COUNT(*) FROM read_parquet(?)", [secure_path]).fetchone()[0]
TotalRows(file, rows) == file.rows

\* what one parquet_read call does on the file system fs: the value
\* _build_query returned (None if it was not called), the statements
\* submitted to the engine, the steps that left the process, the result.
ReadOutcome(fs, req, answer) ==
    LET out(b, e, t, r) == [built |-> b, engine |-> e, io |-> t, result |-> r]
        secure == get_secure_path(req.path)
        secure_path == secure[1]
        bq == _build_query(TABLE_EXPR, req.selected_columns, req.filters,
                           req.group_by, req.order_by, req.limit, req.offset,
                           req.aggregates)
        query == bq[1]
        params_or_error == bq[2]
        params == ReadParams(secure_path, params_or_error)
        submitted == <<[query |-> query[1], params |-> params]>>
        counted == <<[query |-> COUNT_QUERY, params |-> <<[str |-> secure_path]>>]>>
        file == fs[secure_path]
        rows == [i \in 1..RowsYielded(query[1], params, file.rows, answer.dropped) |-> i]
        columns == ColumnsYielded(query[1], file.columns)
        checked == <<"import duckdb", "get_secure_path", "exists">>
    IN  IF req.offset < 0 \/ (req.limit # None /\ req.limit[1] < 0)
        THEN out(None, <<>>, <<>>, [error |-> "offset and limit must be non-negative"])
        ELSE IF ~has_parquet_extension(req.path)
        THEN out(None, <<>>, <<>>, [error |-> "File must have .parquet extension"])
        ELSE IF ~req.duckdb_installed
        THEN out(None, <<>>, <<"import duckdb">>,
                 [error |-> "duckdb is required for parquet tools"])
        ELSE IF secure = None
        THEN out(None, <<>>, <<"import duckdb", "get_secure_path">>,
                 Caught("Failed to read parquet", "path outside sandbox"))
        ELSE IF ~exists(fs, secure_path)
        THEN out(None, <<>>, checked, file_not_found(req.path))
        ELSE IF query = None \/ query[1] = ""
        THEN out(Some(bq), <<>>, checked, params_or_error)
        ELSE IF answer.fails = 1
        THEN out(Some(bq), submitted, checked \o <<"connect", "execute">>,
                 Caught("Failed to read parquet", "engine error"))
        ELSE IF answer.fails = 2
        THEN out(Some(bq), submitted \o counted,
                 checked \o <<"connect", "execute", "execute">>,
                 Caught("Failed to read parquet", "engine error"))
        ELSE out(Some(bq), submitted \o counted,
                 checked \o <<"connect", "execute", "execute">>,
                 [success |-> TRUE, path |-> req.path,
                  columns |-> columns, column_count |-> Len(columns),
                  rows |-> rows, row_count |-> Len(rows),
                  total_rows |-> TotalRows(file, rows),
                  offset |-> req.offset, limit |-> req.limit])

\* COPY writing no file
Copy_nothing(fs, secure_path, df) == fs

\* conn.execute("COPY data_df TO ? (FORMAT PARQUET)", [secure_path])
Copy(fs, secure_path, df) ==
    [p \in DOMAIN fs \cup {secure_path} |-> IF p = secure_path THEN df ELSE fs[p]]

\* pd.DataFrame(rows, columns=columns): one row for each entry of rows
DataFrame(rows, columns) == [columns |-> columns, rows |-> Len(rows)]

\* what one parquet_write call does: as ReadOutcome, with the file system
\* it leaves.  A COPY that raises leaves the destination as it was.
WriteOutcome(fs, req, answer) ==
    LET out(e, t, r, f) == [built |-> None, engine |-> e, io |-> t, result |-> r, files |-> f]
        secure == get_secure_path(req.path)
        secure_path == secure[1]
        df == DataFrame(req.rows, req.columns)
        copied == <<[query |-> COPY_STATEMENT, params |-> <<[str |-> secure_path]>>]>>
        steps == <<"import duckdb", "import pandas", "get_secure_path", "makedirs",
                   "connect", "execute">>
    IN  IF ~has_parquet_extension(req.path)
        THEN out(<<>>, <<>>, [error |-> "File must have .parquet extension"], fs)
        ELSE IF Len(req.columns) = 0
        THEN out(<<>>, <<>>, [error |-> "columns cannot be empty"], fs)
        ELSE IF ~req.duckdb_installed
        THEN out(<<>>, <<"import duckdb">>,
                 [error |-> "duckdb is required for parquet tools"], fs)
        ELSE IF secure = None
        THEN out(<<>>, SubSeq(steps, 1, 3),
                 Caught("Failed to write parquet", "path outside sandbox"), fs)
        ELSE IF answer.fails # 0
        THEN out(copied, steps, Caught("Failed to write parquet", "engine error"), fs)
        ELSE out(copied, steps,
                 [success |-> TRUE, path |-> req.path, columns |-> req.columns,
                  column_count |-> Len(req.columns), rows_written |-> df.rows],
                 Copy(fs, secure_path, df))

\* what one parquet_info call does
InfoOutcome(fs, req, answer) ==
    LET out(e, t, r) == [built |-> None, engine |-> e, io |-> t, result |-> r]
        secure == get_secure_path(req.path)
        secure_path == secure[1]
        file == fs[secure_path]
        described == <<[query |-> DESCRIBE_QUERY, params |-> <<[str |-> secure_path]>>]>>
        counted == <<[query |-> COUNT_QUERY, params |-> <<[str |-> secure_path]>>]>>
        checked == <<"import duckdb", "get_secure_path", "exists">>
    IN  IF ~has_parquet_extension(req.path)
        THEN out(<<>>, <<>>, [error |-> "File must have .parquet extension"])
        ELSE IF ~req.duckdb_installed
        THEN out(<<>>, <<"import duckdb">>,
                 [error |-> "duckdb is required for parquet tools"])
        ELSE IF secure = None
        THEN out(<<>>, <<"import duckdb", "get_secure_path">>,
                 Caught("Failed to read parquet info", "path outside sandbox"))
        ELSE IF ~exists(fs, secure_path)
        THEN out(<<>>, checked, file_not_found(req.path))
        ELSE IF answer.fails = 1
        THEN out(described, checked \o <<"connect", "execute">>,
                 Caught("Failed to read parquet info", "engine error"))
        ELSE IF answer.fails = 2
        THEN out(described \o counted, checked \o <<"connect", "execute", "execute">>,
                 Caught("Failed to read parquet info", "engine error"))
        ELSE out(described \o counted,
                 checked \o <<"connect", "execute", "execute", "getsize">>,
                 [success |-> TRUE, path |-> req.path, columns |-> file.columns,
                  column_count |-> Len(file.columns), total_rows |-> file.rows,
                  file_size |-> [getsize |-> secure_path]])

(***************************************************************************)
(* The inputs explored.                                                    *)
(***************************************************************************)
\* column names and aliases: two identifiers, one with a forbidden
\* character, one with a trailing newline
Names == {"a", "b_1", "a;", "a\n"}
FilterOps == {"=", "IN", "<>"}
FilterValues ==
    {[int |-> 7]} \cup {[list |-> [i \in 1..n |-> 7 + i]] : n \in 0..MaxInLen}
AggregateOps == {"SUM", "Median"}
Aliases == {"", "t", "t;"}
Directions == {None, Some("DESC"), Some("Up")}

SelectedInputs == Names
GroupInputs == Names
FilterInputs == [column : {"a", "a;", "a\n"}, op : FilterOps, value : FilterValues]
OrderInputs == [column : {"b_1", "a;"}, direction : Directions]
AggregateInputs == [column : {"b_1", "a;"}, op : AggregateOps, alias : Aliases]

\* the non-default values of the scalar arguments and of the environment
LimitInputs == {Some(0), Some(5), Some(-1)}
OffsetInputs == {3, -1}
DEFAULT_PATH == "d.parquet"
PathInputs == {"D.PARQUET", "m.parquet", "d.txt", "../d.parquet"}

\* how many entries each list has, and which scalars are non-default
Shapes ==
    {sh \in [{"sel", "grp", "flt", "ord", "agg"} -> 0..MaxItems]
            \X [{"lim", "off", "path", "nodb"} -> 0..1] :
        sh[1]["sel"] + sh[1]["grp"] + sh[1]["flt"] + sh[1]["ord"] + sh[1]["agg"]
        + sh[2]["lim"] + sh[2]["off"] + sh[2]["path"] + sh[2]["nodb"] <= MaxItems}

Lists(S, n) == [1..n -> S]

RequestsOf(sh) ==
    [op : {"parquet_read"},
     path : IF sh[2]["path"] = 1 THEN PathInputs ELSE {DEFAULT_PATH},
     limit : IF sh[2]["lim"] = 1 THEN LimitInputs ELSE {None},
     offset : IF sh[2]["off"] = 1 THEN OffsetInputs ELSE {0},
     duckdb_installed : IF sh[2]["nodb"] = 1 THEN {FALSE} ELSE {TRUE},
     selected_columns : Lists(SelectedInputs, sh[1]["sel"]),
     filters : Lists(FilterInputs, sh[1]["flt"]),
     group_by : Lists(GroupInputs, sh[1]["grp"]),
     order_by : Lists(OrderInputs, sh[1]["ord"]),
     aggregates : Lists(AggregateInputs, sh[1]["agg"])]

\* requests that give every clause at once: two filters, two group-by keys,
\* an aggregate, two order entries, a limit and an offset
FullRequests ==
    [op : {"parquet_read"},
     path : {DEFAULT_PATH},
     limit : {Some(5)},
     offset : {3},
     duckdb_installed : {TRUE},
     selected_columns : {<<>>, <<"b_1">>},
     filters : {<<[column |-> "a", op |-> "IN", value |-> [list |-> <<8, 9>>]],
                  [column |-> "b_1", op |-> ">=", value |-> [int |-> 7]]>>},
     group_by : {<<"b_1", "a">>},
     order_by : {<<[column |-> "b_1", direction |-> Some("DESC")],
                   [column |-> "a", direction |-> None]>>},
     aggregates : {<<>>, <<[column |-> "b_1", op |-> "SUM", alias |-> "t"]>>}]

\* the strings handed to _validate_identifier on its own
NameChars == {"a", "Z", "7", "_", ";", " ", "'", "\n"}

RECURSIVE Strings(_)
Strings(n) ==
    IF n = 0 THEN {""}
    ELSE LET shorter == Strings(n - 1)
         IN  shorter \cup {s \o c : s \in shorter, c \in NameChars}

(***************************************************************************)
(* The inputs of the handlers run on a changing file system.               *)
(***************************************************************************)
FilePaths == {DEFAULT_PATH} \cup PathInputs

\* each list argument absent or with one entry that passes every check
ReadRequests ==
    [op : {"parquet_read"},
     path : FilePaths,
     limit : {None, Some(1)},
     offset : {0, 1, -1},
     duckdb_installed : {TRUE},
     selected_columns : {<<>>, <<"b_1">>},
     filters : {<<>>, <<[column |-> "a", op |-> "=", value |-> [int |-> 7]]>>},
     group_by : {<<>>, <<"a">>},
     order_by : {<<>>},
     aggregates : {<<>>, <<[column |-> "b_1", op |-> "SUM", alias |-> "t"]>>}]

\* the request with every optional argument left at its default
DefaultRead(path) ==
    [op |-> "parquet_read", path |-> path, limit |-> None, offset |-> 0,
     duckdb_installed |-> TRUE, selected_columns |-> <<>>, filters |-> <<>>,
     group_by |-> <<>>, order_by |-> <<>>, aggregates |-> <<>>]

WriteRequests ==
    [op : {"parquet_write"},
     path : FilePaths,
     columns : {<<>>, <<"a", "b_1">>},
     rows : {[i \in 1..n |-> i] : n \in 0..MaxRows},
     duckdb_installed : BOOLEAN]

InfoRequests == [op : {"parquet_info"}, path : FilePaths, duckdb_installed : BOOLEAN]

\* the replies of the engine
ReadAnswers == [fails : {0}, dropped : 0..MaxRows] \cup [fails : 1..2, dropped : {0}]
WriteAnswers == [fails : 0..1]
InfoAnswers == [fails : 0..2]

(***************************************************************************)
(* web_search_tool.py: the cache and the handler.  _CACHE is the list of   *)
(* the entries of the dict in insertion order; an entry is a record with   *)
(* the fields key, timestamp and payload.                                  *)
(***************************************************************************)
\* the defaults of _get_env_int
DEFAULT_TTL_SECONDS == 300
DEFAULT_MAX_SIZE == 128
QUERY_MAX_CHARS == 500

\* str(n) of a number that is not negative
RECURSIVE str(_)
str(n) == IF n < 10 THEN Ch(DIGITS, n + 1) ELSE str(n \div 10) \o Ch(DIGITS, (n % 10) + 1)

\* s * n
RECURSIVE Times(_, _)
Times(s, n) ==
    IF n = 0 THEN ""
    ELSE LET half == Times(s, n \div 2)
         IN  IF n % 2 = 0 THEN half \o half ELSE half \o half \o s

_cache_key(query, num_results, country, language, provider) ==
    provider \o "|" \o query \o "|" \o str(num_results) \o "|" \o country \o "|" \o language

\* the position of the entry of a key, 0 if it has none
Position(cache, key) ==
    LET at == {i \in 1..Len(cache) : cache[i].key = key}
    IN  IF at = {} THEN 0 ELSE CHOOSE i \in at : TRUE

\* _CACHE.pop(key, None) of the entry at position i
Pop(cache, i) == [j \in 1..(Len(cache) - 1) |-> IF j < i THEN cache[j] ELSE cache[j + 1]]

\* _CACHE[key] = (timestamp, payload): a key of the dict keeps its place
Put(cache, key, timestamp, payload) ==
    LET i == Position(cache, key)
        entry == [key |-> key, timestamp |-> timestamp, payload |-> payload]
    IN  IF i = 0 THEN Append(cache, entry) ELSE [cache EXCEPT ![i] = entry]

\* min(_CACHE, key=lambda k: _CACHE[k][0]): the first of the entries with
\* the smallest timestamp
Oldest(cache) ==
    Min({i \in 1..Len(cache) : \A j \in 1..Len(cache) : cache[i].timestamp <= cache[j].timestamp})

\* the lookup never expiring an entry
_get_cached_no_expiry(cache, now, key) ==
    LET i == Position(cache, key)
    IN  IF CACHE_TTL_SECONDS <= 0 \/ i = 0 THEN [cache |-> cache, payload |-> None, io |-> <<>>]
        ELSE [cache |-> cache, payload |-> Some(cache[i].payload), io |-> <<>>]

\* the cache after the lookup, the payload found (None if none), the steps
_get_cached(cache, now, key) ==
    LET i == Position(cache, key)
    IN  IF CACHE_TTL_SECONDS <= 0 THEN [cache |-> cache, payload |-> None, io |-> <<>>]
        ELSE IF i = 0 THEN [cache |-> cache, payload |-> None, io |-> <<>>]
        ELSE IF now - cache[i].timestamp > CACHE_TTL_SECONDS
        THEN [cache |-> Pop(cache, i), payload |-> None,
              io |-> <<[op |-> "pop", key |-> key, why |-> "expired"]>>]
        ELSE [cache |-> cache, payload |-> Some(cache[i].payload), io |-> <<>>]

\* the store evicting nothing
_set_cache_no_eviction(cache, now, key, payload) ==
    IF CACHE_MAX_SIZE <= 0 THEN [cache |-> cache, io |-> <<>>]
    ELSE [cache |-> Put(cache, key, now, payload), io |-> <<[op |-> "set", key |-> key]>>]

\* the cache after the store, and the steps
_set_cache(cache, now, key, payload) ==
    IF CACHE_MAX_SIZE <= 0 THEN [cache |-> cache, io |-> <<>>]
    ELSE IF Len(cache) >= CACHE_MAX_SIZE
    THEN LET oldest == Oldest(cache)
         IN  [cache |-> Put(Pop(cache, oldest), key, now, payload),
              io |-> <<[op |-> "pop", key |-> cache[oldest].key, why |-> "oldest"],
                       [op |-> "set", key |-> key]>>]
    ELSE [cache |-> Put(cache, key, now, payload), io |-> <<[op |-> "set", key |-> key]>>]

\* The provider's reply, chosen by the environment: a status code, or the
\* exception httpx.get raises.  The results of a 200 are those of the
\* parameters of the request, at the instant of the reply.
_search_google(query, num_results, country, language, now, answer) ==
    LET params == [q |-> query, num |-> Min({num_results, 10}),
                   lr |-> "lang_" \o language, gl |-> country]
    IN  IF answer.status = 401 THEN [error |-> "Invalid Google API key"]
        ELSE IF answer.status = 403
        THEN [error |-> "Google API key not authorized or quota exceeded"]
        ELSE IF answer.status = 429
        THEN [error |-> "Google rate limit exceeded. Try again later."]
        ELSE IF answer.status # 200
        THEN [error |-> "Google API request failed: HTTP " \o str(answer.status)]
        ELSE [query |-> query, results |-> <<[fetched_at |-> now, params |-> params]>>,
              total |-> 1, provider |-> "google"]

_search_brave(query, num_results, country, now, answer) ==
    LET params == [q |-> query, count |-> Min({num_results, 20}), country |-> country]
    IN  IF answer.status = 401 THEN [error |-> "Invalid Brave API key"]
        ELSE IF answer.status = 429
        THEN [error |-> "Brave rate limit exceeded. Try again later."]
        ELSE IF answer.status # 200
        THEN [error |-> "Brave API request failed: HTTP " \o str(answer.status)]
        ELSE [query |-> query, results |-> <<[fetched_at |-> now, params |-> params]>>,
              total |-> 1, provider |-> "brave"]

\* every response stored
Cacheable_always(response) == TRUE

\* if "error" not in response: the responses web_search stores
Cacheable(response) == "error" \notin DOMAIN response

\* what one web_search call does at the instant now: the cache it leaves,
\* the steps on the cache and the provider, the result
SearchOutcome(cache, now, req, answer) ==
    LET out(c, t, r) == [cache |-> c, io |-> t, result |-> r]
        google_available == req.google_api_key /\ req.google_cse_id
        brave_available == req.brave_api_key
        provider == IF req.provider # "auto" THEN req.provider
                    ELSE IF brave_available THEN "brave" ELSE "google"
        cache_key == _cache_key(req.query, req.num_results, req.country, req.language, provider)
        cached == _get_cached(cache, now, cache_key)
        request == <<[op |-> "httpx.get", provider |-> provider, q |-> req.query]>>
        response == IF provider = "google"
                    THEN _search_google(req.query, req.num_results, req.country,
                                        req.language, now, answer)
                    ELSE _search_brave(req.query, req.num_results, req.country, now, answer)
        stored == _set_cache(cached.cache, now, cache_key, response)
    IN  IF Len(req.query) = 0 \/ Len(req.query) > QUERY_MAX_CHARS
        THEN out(cache, <<>>, [error |-> "Query must be 1-500 characters"])
        ELSE IF req.provider = "auto" /\ ~brave_available /\ ~google_available
        THEN out(cache, <<>>,
                 [error |-> "No search credentials configured",
                  help |-> "Set either GOOGLE_API_KEY+GOOGLE_CSE_ID or BRAVE_SEARCH_API_KEY"])
        ELSE IF provider = "google" /\ ~google_available
        THEN out(cache, <<>>,
                 [error |-> "Google credentials not configured",
                  help |-> "Set GOOGLE_API_KEY and GOOGLE_CSE_ID environment variables"])
        ELSE IF provider = "brave" /\ ~brave_available
        THEN out(cache, <<>>,
                 [error |-> "Brave credentials not configured",
                  help |-> "Set BRAVE_SEARCH_API_KEY environment variable"])
        ELSE IF cached.payload # None
        THEN out(cached.cache, cached.io, cached.payload[1])
        ELSE IF "raises" \in DOMAIN answer
        THEN out(cached.cache, cached.io \o request,
                 IF answer.raises = "TimeoutException"
                 THEN [error |-> "Search request timed out"]
                 ELSE IF answer.raises = "RequestError"
                 THEN [error |-> "Network error: " \o answer.raises]
                 ELSE [error |-> "Search failed: " \o answer.raises])
        ELSE IF ~Cacheable(response)
        THEN out(cached.cache, cached.io \o request, response)
        ELSE out(stored.cache, cached.io \o request \o stored.io, response)

LONG_QUERY == Times("q", QUERY_MAX_CHARS + 1)

\* requests to Brave with a "|" in the query or in the country
PipeRequests ==
    [op : {"web_search"},
     query : {"q|10|us"},
     num_results : {10},
     country : {"us"},
     language : {"en"},
     provider : {"brave"},
     google_api_key : {FALSE},
     google_cse_id : {TRUE},
     brave_api_key : {TRUE}]
    \cup
    [op : {"web_search"},
     query : {"q"},
     num_results : {10},
     country : {"us|10|us"},
     language : {"en"},
     provider : {"brave"},
     google_api_key : {FALSE},
     google_cse_id : {TRUE},
     brave_api_key : {TRUE}]

SearchRequests ==
    [op : {"web_search"},
     query : {"", "q", "r", LONG_QUERY},
     num_results : {10},
     country : {"us"},
     language : {"en"},
     provider : {"auto", "google", "brave"},
     google_api_key : BOOLEAN,
     google_cse_id : {TRUE},
     brave_api_key : BOOLEAN]
    \cup PipeRequests

ProviderAnswers ==
    [status : {200, 401, 403, 429, 500}]
    \cup [raises : {"TimeoutException", "RequestError", "ValueError"}]

\* the values of the two environment variables
TtlInputs == {-1, 0, 1, 2}
SizeInputs == {-1, 0, 1, 2}

(***************************************************************************)
(* email_tool.py.  A recipient argument is [none |-> TRUE], [str |-> s] or *)
(* [list |-> elements], an element being [str |-> s] or, for a value that  *)
(* is no string, [int |-> n].  The environment variables and the stored    *)
(* credentials a call finds are fields of the request.                     *)
(***************************************************************************)
SUBJECT_MAX_CHARS == 998

\* the characters str.strip() removes
WHITESPACE == {" ", "\t", "\n", "\r", "\f"}

RECURSIVE lstrip(_)
lstrip(s) == IF Len(s) > 0 /\ Ch(s, 1) \in WHITESPACE THEN lstrip(Tail(s)) ELSE s

RECURSIVE rstrip(_)
rstrip(s) ==
    IF Len(s) > 0 /\ Ch(s, Len(s)) \in WHITESPACE THEN rstrip(SubSeq(s, 1, Len(s) - 1)) ELSE s

strip(s) == rstrip(lstrip(s))

\* an empty string taken for a value
Truthy_not_none(x) == x # None

\* the truth value of an optional string
Truthy(x) == x # None /\ Len(x[1]) > 0

\* a dict with no key, and a dict with the key k alone
EmptyDict == [k \in {} |-> k]
Only(k, v) == [x \in {k} |-> v]

\* from_email if given, else os.getenv("EMAIL_FROM")
_resolve_from_email(from_email, EMAIL_FROM) ==
    IF Truthy(from_email) THEN from_email ELSE EMAIL_FROM

\* [v for v in value if isinstance(v, str) and v.strip()], from element i on
RECURSIVE Filtered(_, _)
Filtered(value, i) ==
    IF i > Len(value) THEN <<>>
    ELSE IF "str" \in DOMAIN value[i] /\ Len(strip(value[i].str)) > 0
    THEN <<value[i].str>> \o Filtered(value, i + 1)
    ELSE Filtered(value, i + 1)

\* a string kept whether blank or not
_normalize_recipients_keeps_blank(value) ==
    IF "none" \in DOMAIN value THEN None
    ELSE IF "str" \in DOMAIN value THEN Some(<<value.str>>)
    ELSE IF Len(Filtered(value.list, 1)) > 0 THEN Some(Filtered(value.list, 1)) ELSE None

\* a list of strings, or None
_normalize_recipients(value) ==
    IF "none" \in DOMAIN value THEN None
    ELSE IF "str" \in DOMAIN value
    THEN IF Len(strip(value.str)) > 0 THEN Some(<<value.str>>) ELSE None
    ELSE IF Len(Filtered(value.list, 1)) > 0 THEN Some(Filtered(value.list, 1)) ELSE None

_get_credential(provider, req) ==
    IF provider = "gmail" THEN req.GOOGLE_ACCESS_TOKEN ELSE req.RESEND_API_KEY

\* The provider's reply, chosen by the environment: the status of the HTTP
\* response, or the exception the transport raises.
\* What sending does: the messages handed to the provider and the result;
\* an exception that leaves the function is [raised |-> its name].
_send_via_resend(api_key, to, subject, html, from_email, cc, bcc, answer) ==
    LET payload == [from |-> from_email[1], to |-> to, subject |-> subject, html |-> html]
                   @@ (IF cc # None THEN Only("cc", cc[1]) ELSE EmptyDict)
                   @@ (IF bcc # None THEN Only("bcc", bcc[1]) ELSE EmptyDict)
        sent == <<[provider |-> "resend", api_key |-> api_key, payload |-> payload]>>
    IN  IF "raises" \in DOMAIN answer /\ answer.raises # "ResendError"
        THEN [outbox |-> sent, result |-> [raised |-> answer.raises]]
        ELSE IF "raises" \in DOMAIN answer \/ answer.status # 200
        THEN [outbox |-> sent, result |-> [error |-> "Resend API error: ResendError"]]
        ELSE [outbox |-> sent,
              result |-> [success |-> TRUE, provider |-> "resend", id |-> "id",
                          to |-> to, subject |-> subject]]

_send_via_gmail(access_token, to, subject, html, from_email, cc, bcc, answer) ==
    LET msg == [To |-> join(", ", to), Subject |-> subject, body |-> html]
               @@ (IF Truthy(from_email) THEN Only("From", from_email[1]) ELSE EmptyDict)
               @@ (IF cc # None THEN Only("Cc", join(", ", cc[1])) ELSE EmptyDict)
               @@ (IF bcc # None THEN Only("Bcc", join(", ", bcc[1])) ELSE EmptyDict)
        sent == <<[provider |-> "gmail", access_token |-> access_token, msg |-> msg]>>
    IN  IF "raises" \in DOMAIN answer
        THEN [outbox |-> sent, result |-> [raised |-> answer.raises]]
        ELSE IF answer.status = 401
        THEN [outbox |-> sent,
              result |-> [error |-> "Gmail token expired or invalid",
                          help |-> "Re-authorize via hive.adenhq.com"]]
        ELSE IF answer.status # 200
        THEN [outbox |-> sent,
              result |-> [error |-> "Gmail API error (HTTP " \o str(answer.status) \o "): text"]]
        ELSE [outbox |-> sent,
              result |-> [success |-> TRUE, provider |-> "gmail", id |-> "id",
                          to |-> to, subject |-> subject]]

\* the exception of the provider call let through
SendFailed_reraised(exc) == [raised |-> exc]

\* except Exception as e: return {"error": f"Email send failed: {e}"}
SendFailed(exc) == [error |-> "Email send failed: " \o exc]

\* the override leaving cc and bcc as they are
Override_keeps_cc(override_to, to_list, cc_list, bcc_list, subject) ==
    IF Truthy(override_to)
    THEN [to_list |-> Some(<<override_to[1]>>), cc_list |-> cc_list, bcc_list |-> bcc_list,
          subject |-> "[TEST -> " \o join(", ", to_list[1]) \o "] " \o subject]
    ELSE [to_list |-> to_list, cc_list |-> cc_list, bcc_list |-> bcc_list,
          subject |-> subject]

\* the testing override of os.getenv("EMAIL_OVERRIDE_TO"): the recipient
\* lists and the subject that go on to the provider
Override(override_to, to_list, cc_list, bcc_list, subject) ==
    IF Truthy(override_to)
    THEN [to_list |-> Some(<<override_to[1]>>), cc_list |-> None, bcc_list |-> None,
          subject |-> "[TEST -> " \o join(", ", to_list[1]) \o "] " \o subject]
    ELSE [to_list |-> to_list, cc_list |-> cc_list, bcc_list |-> bcc_list,
          subject |-> subject]

\* send_email, which is _send_email_impl
SendOutcome(req, answer) ==
    LET from_email == _resolve_from_email(req.from_email, req.EMAIL_FROM)
        to_list == _normalize_recipients(req.to)
        cc_list == _normalize_recipients(req.cc)
        bcc_list == _normalize_recipients(req.bcc)
        redirected == Override(req.EMAIL_OVERRIDE_TO, to_list, cc_list, bcc_list, req.subject)
        to_sent == redirected.to_list[1]
        cc_sent == redirected.cc_list
        bcc_sent == redirected.bcc_list
        subject == redirected.subject
        credential == _get_credential(req.provider, req)
        attempt == IF req.provider = "gmail"
                   THEN _send_via_gmail(credential[1], to_sent, subject, req.html,
                                        from_email, cc_sent, bcc_sent, answer)
                   ELSE _send_via_resend(credential[1], to_sent, subject, req.html,
                                         from_email, cc_sent, bcc_sent, answer)
        nothing(r) == [outbox |-> <<>>, result |-> r]
    IN  IF to_list = None
        THEN nothing([error |-> "At least one recipient email is required"])
        ELSE IF Len(req.subject) = 0 \/ Len(req.subject) > SUBJECT_MAX_CHARS
        THEN nothing([error |-> "Subject must be 1-998 characters"])
        ELSE IF Len(req.html) = 0
        THEN nothing([error |-> "Email body (html) is required"])
        ELSE IF req.provider = "resend" /\ ~Truthy(from_email)
        THEN nothing([error |-> "Sender email is required",
                      help |-> "Pass from_email or set EMAIL_FROM environment variable"])
        ELSE IF ~Truthy(credential)
        THEN IF req.provider = "gmail"
             THEN nothing([error |-> "Gmail credentials not configured",
                           help |-> "Connect Gmail via hive.adenhq.com"])
             ELSE nothing([error |-> "Resend credentials not configured",
                           help |-> "Set RESEND_API_KEY environment variable. Get a key at https://resend.com/api-keys"])
        ELSE IF "raised" \in DOMAIN attempt.result
        THEN [outbox |-> attempt.outbox, result |-> SendFailed(attempt.result.raised)]
        ELSE attempt

LONGEST_SUBJECT == Times("x", SUBJECT_MAX_CHARS)
LONG_SUBJECT == Times("x", SUBJECT_MAX_CHARS + 1)

RecipientInputs ==
    {[none |-> TRUE], [str |-> "a@x"], [str |-> ""], [str |-> " \t"], [list |-> <<>>],
     [list |-> <<[str |-> ""], [str |-> "  "]>>],
     [list |-> <<[str |-> ""], [str |-> "b@x"], [str |-> "  "], [str |-> "a@x"]>>],
     [list |-> <<[int |-> 7], [str |-> " c@x "]>>]}

\* the request of the tests: one recipient, Resend, sender and key in the
\* environment, and the provider accepting the message
DEFAULT_EMAIL ==
    [op |-> "send_email", to |-> [str |-> "a@x"], subject |-> "Test", html |-> "<p>Hi</p>",
     provider |-> "resend", from_email |-> None, cc |-> [none |-> TRUE],
     bcc |-> [none |-> TRUE], EMAIL_FROM |-> Some("test@x"), EMAIL_OVERRIDE_TO |-> None,
     RESEND_API_KEY |-> Some("re_test_key"), GOOGLE_ACCESS_TOKEN |-> Some("token")]

EmailFields ==
    {"to", "subject", "html", "provider", "from_email", "cc", "bcc", "EMAIL_FROM",
     "EMAIL_OVERRIDE_TO", "RESEND_API_KEY", "GOOGLE_ACCESS_TOKEN"}

\* the requests that differ from the default in the fields D
Varied(D) ==
    [op : {"send_email"},
     to : IF "to" \in D THEN RecipientInputs \ {DEFAULT_EMAIL.to} ELSE {DEFAULT_EMAIL.to},
     subject : IF "subject" \in D THEN {"", " ", LONGEST_SUBJECT, LONG_SUBJECT}
               ELSE {DEFAULT_EMAIL.subject},
     html : IF "html" \in D THEN {""} ELSE {DEFAULT_EMAIL.html},
     provider : IF "provider" \in D THEN {"gmail"} ELSE {DEFAULT_EMAIL.provider},
     from_email : IF "from_email" \in D THEN {Some("me@x"), Some("")} ELSE {None},
     cc : IF "cc" \in D THEN RecipientInputs \ {DEFAULT_EMAIL.cc} ELSE {DEFAULT_EMAIL.cc},
     bcc : IF "bcc" \in D THEN RecipientInputs \ {DEFAULT_EMAIL.bcc} ELSE {DEFAULT_EMAIL.bcc},
     EMAIL_FROM : IF "EMAIL_FROM" \in D THEN {None, Some("")} ELSE {DEFAULT_EMAIL.EMAIL_FROM},
     EMAIL_OVERRIDE_TO : IF "EMAIL_OVERRIDE_TO" \in D THEN {Some("o@x"), Some("")}
                         ELSE {None},
     RESEND_API_KEY : IF "RESEND_API_KEY" \in D THEN {None, Some("")}
                      ELSE {DEFAULT_EMAIL.RESEND_API_KEY},
     GOOGLE_ACCESS_TOKEN : IF "GOOGLE_ACCESS_TOKEN" \in D THEN {None, Some("")}
                           ELSE {DEFAULT_EMAIL.GOOGLE_ACCESS_TOKEN}]

\* the sets of at most MaxItems + 1 fields
FieldChoices == {D \in SUBSET EmailFields : Cardinality(D) <= MaxItems + 1}

EmailAnswers == [status : {200, 401, 500}] \cup [raises : {"ResendError", "ConnectError"}]

(***************************************************************************)
(* The state machine: a tool invocation runs from the idle state, and its  *)
(* return leaves nothing behind but the files and the cache.               *)
(***************************************************************************)
NoCall == [op |-> "none"]
NoResult == [none |-> TRUE]

ParquetInit == built = None /\ engine = <<>> /\ files = FILES /\ io = <<>>
BuilderInit == heap = <<>> /\ frames = <<>>
SearchInit ==
    /\ CACHE_TTL_SECONDS = DEFAULT_TTL_SECONDS
    /\ CACHE_MAX_SIZE = DEFAULT_MAX_SIZE
    /\ _CACHE = <<>>
    /\ clock = 0
EmailInit == outbox = <<>>

Init ==
    /\ call = NoCall
    /\ result = NoResult
    /\ ParquetInit
    /\ BuilderInit
    /\ SearchInit
    /\ EmailInit

validate_identifier ==
    /\ call.op = "none"
    /\ \E name \in Strings(MaxNameLen) :
        /\ call' = [op |-> "_validate_identifier", name |-> name]
        /\ built' = None
        /\ engine' = <<>>
        /\ io' = <<>>
        /\ result' = [ret |-> _validate_identifier(name)]
    /\ UNCHANGED <<files, builder_vars, search_vars, email_vars>>

\* the engine runs the statement or raises on it; on the files of Spec no
\* condition drops a row
parquet_read ==
    /\ call.op = "none"
    /\ \E sh \in Shapes : \E req \in RequestsOf(sh) \cup FullRequests, engine_ok \in BOOLEAN :
        LET o == ReadOutcome(files, req, [fails |-> IF engine_ok THEN 0 ELSE 1, dropped |-> 0])
        IN  /\ call' = req
            /\ built' = o.built
            /\ engine' = o.engine
            /\ io' = o.io
            /\ result' = o.result
    /\ UNCHANGED <<files, builder_vars, search_vars, email_vars>>

\* the caller takes the result
return ==
    /\ call.op # "none"
    /\ call' = NoCall
    /\ built' = None
    /\ engine' = <<>>
    /\ io' = <<>>
    /\ outbox' = <<>>
    /\ result' = NoResult
    /\ UNCHANGED <<files, builder_vars, CACHE_TTL_SECONDS, CACHE_MAX_SIZE, _CACHE, clock>>

Next == validate_identifier \/ parquet_read \/ return

Spec == Init /\ [][Next]_vars

(***************************************************************************)
(* FileSpec: parquet_read, parquet_write and parquet_info one after        *)
(* another on the files they share.                                        *)
(***************************************************************************)
read_file ==
    /\ call.op = "none"
    /\ \E req \in ReadRequests, answer \in ReadAnswers :
        LET o == ReadOutcome(files, req, answer)
        IN  /\ call' = req
            /\ built' = o.built
            /\ engine' = o.engine
            /\ io' = o.io
            /\ result' = o.result
    /\ UNCHANGED <<files, builder_vars, search_vars, email_vars>>

parquet_write ==
    /\ call.op = "none"
    /\ \E req \in WriteRequests, answer \in WriteAnswers :
        LET o == WriteOutcome(files, req, answer)
        IN  /\ call' = req
            /\ built' = o.built
            /\ engine' = o.engine
            /\ io' = o.io
            /\ result' = o.result
            /\ files' = o.files
    /\ UNCHANGED <<builder_vars, search_vars, email_vars>>

parquet_info ==
    /\ call.op = "none"
    /\ \E req \in InfoRequests, answer \in InfoAnswers :
        LET o == InfoOutcome(files, req, answer)
        IN  /\ call' = req
            /\ built' = o.built
            /\ engine' = o.engine
            /\ io' = o.io
            /\ result' = o.result
    /\ UNCHANGED <<files, builder_vars, search_vars, email_vars>>

FileNext == read_file \/ parquet_write \/ parquet_info \/ return

FileSpec == Init /\ [][FileNext]_vars

(***************************************************************************)
(* BuilderSpec: concurrent invocations of _build_query, each a sequence of *)
(* steps on its own locals, reading its arguments from list objects that   *)
(* other invocations may have been handed too.  A local list is either a   *)
(* list of the invocation's own, [val |-> its elements], or another name   *)
(* of an object of the heap, [ref |-> its identity].                       *)
(***************************************************************************)
Threads == 1..MaxThreads

\* the list objects the callers hold
HeapInputs ==
    [names : {<<"a">>},
     conditions : {<<[column |-> "a", op |-> "IN", value |-> [list |-> <<8, 9>>]]>>},
     functions : {<<[column |-> "b_1", op |-> "SUM", alias |-> "t"]>>,
                  <<[column |-> "b_1", op |-> "Median", alias |-> ""]>>}]

\* the arguments of one invocation: each list argument is None or one of
\* the objects
ArgumentInputs ==
    [selected_columns : {None, Some("names")},
     group_by : {None, Some("names")},
     filters : {Some("conditions")},
     aggregates : {None, Some("functions")},
     order_by : {None},
     limit : {None},
     offset : {0}]

\* the list an argument names; None tests and iterates as the empty list
Arg(h, a) == IF a = None THEN <<>> ELSE h[a[1]]

\* the elements of a local list
Deref(h, x) == IF "ref" \in DOMAIN x THEN h[x.ref] ELSE x.val

\* the heap and the local after the list x names was changed to v
Store(h, x, v) == IF "ref" \in DOMAIN x THEN [h EXCEPT ![x.ref] = v] ELSE h
Local(x, v) == IF "ref" \in DOMAIN x THEN x ELSE [val |-> v]

\* select_parts made another name of group_by
FreshExtended_aliased(h, group_by) == [ref |-> group_by[1]]

\* lines 58-60: select_parts = []; select_parts.extend(group_by)
FreshExtended(h, group_by) == [val |-> Arg(h, group_by)]

IdleFrame ==
    [pc |-> "idle", args |-> None, given |-> None, params |-> <<>>,
     select_parts |-> [val |-> <<>>], where_parts |-> <<>>, order_parts |-> <<>>,
     ret |-> None]

\* the values of the list arguments of a frame in heap h
Given(h, args) ==
    [selected_columns |-> Arg(h, args.selected_columns),
     group_by |-> Arg(h, args.group_by),
     filters |-> Arg(h, args.filters),
     aggregates |-> Arg(h, args.aggregates),
     order_by |-> Arg(h, args.order_by)]

Returned(frame, value) == [frame EXCEPT !.pc = "done", !.ret = Some(value)]

BuilderSpecInit ==
    /\ call = NoCall
    /\ result = NoResult
    /\ ParquetInit
    /\ SearchInit
    /\ EmailInit
    /\ heap \in HeapInputs
    /\ frames = [t \in Threads |-> IdleFrame]

\* an invocation begins: line 46
call_build_query ==
    \E t \in Threads :
        /\ frames[t].pc = "idle"
        /\ \E args \in ArgumentInputs :
            frames' = [frames EXCEPT ![t] =
                [IdleFrame EXCEPT !.pc = "validate", !.args = Some(args),
                                  !.given = Some(Given(heap, args))]]
        /\ UNCHANGED <<call, result, heap, parquet_vars, search_vars, email_vars>>

\* lines 48-56
validate_columns ==
    \E t \in Threads :
        LET frame == frames[t]
            selected_columns == Arg(heap, frame.args[1].selected_columns)
            group_by == Arg(heap, frame.args[1].group_by)
            bad_sel == FirstInvalid(selected_columns)
            bad_grp == FirstInvalid(group_by)
        IN  /\ frame.pc = "validate"
            /\ frames' = [frames EXCEPT ![t] =
                  IF bad_sel # 0
                  THEN Returned(frame, <<None, _error_invalid_identifier(selected_columns[bad_sel])>>)
                  ELSE IF bad_grp # 0
                  THEN Returned(frame, <<None, _error_invalid_identifier(group_by[bad_grp])>>)
                  ELSE [frame EXCEPT !.pc = "select"]]
            /\ UNCHANGED <<call, result, heap, parquet_vars, search_vars, email_vars>>

\* lines 58-81
build_select ==
    \E t \in Threads :
        LET frame == frames[t]
            args == frame.args[1]
            group_by == Arg(heap, args.group_by)
            aggregates == Arg(heap, args.aggregates)
            extended == FreshExtended(heap, args.group_by)
            loop == AggregateLoop(aggregates, 1, Deref(heap, extended))
        IN  /\ frame.pc = "select"
            /\ IF Len(group_by) > 0 /\ Len(aggregates) > 0
               THEN IF loop.error # None
                    THEN /\ frames' = [frames EXCEPT ![t] = Returned(frame, <<None, loop.error[1]>>)]
                         /\ heap' = heap
                    ELSE /\ frames' = [frames EXCEPT ![t] =
                              [frame EXCEPT !.pc = "where",
                                            !.select_parts = Local(extended, loop.select_parts)]]
                         /\ heap' = Store(heap, extended, loop.select_parts)
               ELSE /\ frames' = [frames EXCEPT ![t] =
                         [frame EXCEPT !.pc = "where",
                                       !.select_parts =
                                           IF Len(group_by) > 0 THEN [ref |-> args.group_by[1]]
                                           ELSE IF Len(Arg(heap, args.selected_columns)) > 0
                                           THEN [ref |-> args.selected_columns[1]]
                                           ELSE [val |-> <<"*">>]]]
                    /\ heap' = heap
            /\ UNCHANGED <<call, result, parquet_vars, search_vars, email_vars>>

\* lines 83-101
build_where ==
    \E t \in Threads :
        LET frame == frames[t]
            loop == FilterLoop(Arg(heap, frame.args[1].filters), 1, <<>>, frame.params)
        IN  /\ frame.pc = "where"
            /\ frames' = [frames EXCEPT ![t] =
                  IF loop.error # None THEN Returned(frame, <<None, loop.error[1]>>)
                  ELSE [frame EXCEPT !.pc = "order", !.where_parts = loop.where_parts,
                                     !.params = loop.params]]
            /\ UNCHANGED <<call, result, heap, parquet_vars, search_vars, email_vars>>

\* lines 103-112
build_order ==
    \E t \in Threads :
        LET frame == frames[t]
            loop == OrderLoop(Arg(heap, frame.args[1].order_by), 1, <<>>)
        IN  /\ frame.pc = "order"
            /\ frames' = [frames EXCEPT ![t] =
                  IF loop.error # None THEN Returned(frame, <<None, loop.error[1]>>)
                  ELSE [frame EXCEPT !.pc = "assemble", !.order_parts = loop.order_parts]]
            /\ UNCHANGED <<call, result, heap, parquet_vars, search_vars, email_vars>>

\* lines 114-129
assemble_query ==
    \E t \in Threads :
        LET frame == frames[t]
            args == frame.args[1]
        IN  /\ frame.pc = "assemble"
            /\ frames' = [frames EXCEPT ![t] =
                  Returned(frame, Assemble(TABLE_EXPR, Deref(heap, frame.select_parts),
                                           frame.where_parts, Arg(heap, args.group_by),
                                           frame.order_parts, args.limit, args.offset,
                                           frame.params))]
            /\ UNCHANGED <<call, result, heap, parquet_vars, search_vars, email_vars>>

BuilderNext ==
    \/ call_build_query
    \/ validate_columns
    \/ build_select
    \/ build_where
    \/ build_order
    \/ assemble_query

BuilderSpec == BuilderSpecInit /\ [][BuilderNext]_vars

(***************************************************************************)
(* SearchSpec: web_search calls one after another, the clock advancing     *)
(* between them, under each setting of the two environment variables.      *)
(***************************************************************************)
SearchSpecInit ==
    /\ call = NoCall
    /\ result = NoResult
    /\ ParquetInit
    /\ BuilderInit
    /\ EmailInit
    /\ CACHE_TTL_SECONDS \in TtlInputs
    /\ CACHE_MAX_SIZE \in SizeInputs
    /\ _CACHE = <<>>
    /\ clock = 0

web_search ==
    /\ call.op = "none"
    /\ \E req \in SearchRequests, answer \in ProviderAnswers :
        LET o == SearchOutcome(_CACHE, clock, req, answer)
        IN  /\ call' = req
            /\ _CACHE' = o.cache
            /\ io' = o.io
            /\ result' = o.result
    /\ UNCHANGED <<built, engine, files, builder_vars, CACHE_TTL_SECONDS, CACHE_MAX_SIZE,
                   clock, email_vars>>

\* time passes
tick ==
    /\ call.op = "none"
    /\ clock < MaxClock
    /\ clock' = clock + 1
    /\ UNCHANGED <<call, result, parquet_vars, builder_vars, CACHE_TTL_SECONDS,
                   CACHE_MAX_SIZE, _CACHE, email_vars>>

SearchNext == web_search \/ tick \/ return

SearchSpec == SearchSpecInit /\ [][SearchNext]_vars

(***************************************************************************)
(* EmailSpec: send_email calls one after another.                          *)
(***************************************************************************)
\* io keeps the reply of the provider that was handed a message
send_email ==
    /\ call.op = "none"
    /\ \E D \in FieldChoices : \E req \in Varied(D), answer \in EmailAnswers :
        LET o == SendOutcome(req, answer)
        IN  /\ call' = req
            /\ outbox' = o.outbox
            /\ io' = IF o.outbox # <<>> THEN <<answer>> ELSE <<>>
            /\ result' = o.result
    /\ UNCHANGED <<built, engine, files, builder_vars, search_vars>>

\* the parameters of send_email that have no default
REQUIRED == {"to", "subject", "html", "provider"}

\* a call that leaves out required arguments: binding the arguments raises
\* TypeError and the body of send_email does not run
send_email_unbound ==
    /\ call.op = "none"
    /\ \E given \in (SUBSET REQUIRED) \ {REQUIRED} :
        call' = [op |-> "send_email(**given)", given |-> given]
    /\ outbox' = <<>>
    /\ io' = <<>>
    /\ result' = [raised |-> "TypeError"]
    /\ UNCHANGED <<built, engine, files, builder_vars, search_vars>>

EmailNext == send_email \/ send_email_unbound \/ return

EmailSpec == Init /\ [][EmailNext]_vars

(***************************************************************************)
(* ParallelSpec: web_search calls running in threads on the one _CACHE.    *)
(* A step is what a thread does between two points where the interpreter   *)
(* may switch threads: one operation on the dict (get, len, pop, item      *)
(* assignment, one next() of its iterator), with the local work around it. *)
(* frames[t] holds the position and the locals of thread t.                *)
(***************************************************************************)
\* valid requests for two keys, and one the query check refuses
ParallelRequests ==
    [op : {"web_search"},
     query : {"", "q", "r"},
     num_results : {10},
     country : {"us"},
     language : {"en"},
     provider : {"brave"},
     google_api_key : {FALSE},
     google_cse_id : {TRUE},
     brave_api_key : {TRUE}]

ParallelAnswers == [status : {200, 429}] \cup [raises : {"TimeoutException"}]

Waiting == [pc |-> "idle"]
Finished(ret) == [pc |-> "done", ret |-> ret]

\* _CACHE.pop(key, None)
PopKey(cache, key) == IF Position(cache, key) = 0 THEN cache ELSE Pop(cache, Position(cache, key))

\* the keys of the dict in its order
KeyOrder(cache) == [i \in 1..Len(cache) |-> cache[i].key]

\* an exception of _set_cache, caught by the last except clause of web_search
SearchFailed(message) == Finished([error |-> "Search failed: " \o message])

ParallelInit ==
    /\ call = NoCall
    /\ result = NoResult
    /\ ParquetInit
    /\ EmailInit
    /\ heap = <<>>
    /\ frames = [t \in Threads |-> Waiting]
    /\ CACHE_TTL_SECONDS = 1
    /\ CACHE_MAX_SIZE \in {0, 1, 2}
    /\ _CACHE = <<>>
    /\ clock = 0

\* lines 209-239: the checks of the query and of the credentials, and the key
enter_web_search(t) ==
    /\ frames[t].pc = "idle"
    /\ \E req \in ParallelRequests :
        LET refusal == SearchOutcome(<<>>, clock, req, [status |-> 429])
            key == _cache_key(req.query, req.num_results, req.country, req.language,
                              req.provider)
        IN  frames' = [frames EXCEPT ![t] =
                          IF refusal.io = <<>> THEN Finished(refusal.result)
                          ELSE [pc |-> "_get_cached", req |-> req, key |-> key]]
    /\ UNCHANGED <<call, result, parquet_vars, heap, search_vars, email_vars>>

\* lines 47-56 up to the pop: the entry of the key, and its age
get_cached(t) ==
    LET f == frames[t]
        i == Position(_CACHE, f.key)
    IN  /\ f.pc = "_get_cached"
        /\ frames' = [frames EXCEPT ![t] =
              IF CACHE_TTL_SECONDS <= 0 \/ i = 0
              THEN [pc |-> "search", req |-> f.req, key |-> f.key]
              ELSE IF clock - _CACHE[i].timestamp > CACHE_TTL_SECONDS
              THEN [pc |-> "expire", req |-> f.req, key |-> f.key]
              ELSE Finished(_CACHE[i].payload)]
        /\ UNCHANGED <<call, result, parquet_vars, heap, search_vars, email_vars>>

\* line 54: _CACHE.pop(key, None)
expire(t) ==
    LET f == frames[t]
    IN  /\ f.pc = "expire"
        /\ _CACHE' = PopKey(_CACHE, f.key)
        /\ frames' = [frames EXCEPT ![t] = [pc |-> "search", req |-> f.req, key |-> f.key]]
        /\ UNCHANGED <<call, result, parquet_vars, heap, CACHE_TTL_SECONDS, CACHE_MAX_SIZE,
                       clock, email_vars>>

\* lines 244-267 but the store: the request to the provider
search(t) ==
    LET f == frames[t]
    IN  /\ f.pc = "search"
        /\ \E answer \in ParallelAnswers :
            LET response == _search_brave(f.req.query, f.req.num_results, f.req.country,
                                          clock, answer)
            IN  frames' = [frames EXCEPT ![t] =
                    IF "raises" \in DOMAIN answer
                    THEN Finished([error |-> "Search request timed out"])
                    ELSE IF ~Cacheable(response) THEN Finished(response)
                    ELSE [pc |-> "_set_cache", key |-> f.key, payload |-> response]]
        /\ UNCHANGED <<call, result, parquet_vars, heap, search_vars, email_vars>>

\* lines 60-62: the two tests of _set_cache
set_cache(t) ==
    LET f == frames[t]
    IN  /\ f.pc = "_set_cache"
        /\ frames' = [frames EXCEPT ![t] =
              IF CACHE_MAX_SIZE <= 0 THEN Finished(f.payload)
              ELSE IF Len(_CACHE) >= CACHE_MAX_SIZE
              THEN [pc |-> "min", key |-> f.key, payload |-> f.payload]
              ELSE [pc |-> "store", key |-> f.key, payload |-> f.payload]]
        /\ UNCHANGED <<call, result, parquet_vars, heap, search_vars, email_vars>>

\* line 63: min() takes the iterator of the dict; seen is the dict it was
\* taken of, pos the entries passed, best the smallest found
min_iter(t) ==
    LET f == frames[t]
    IN  /\ f.pc = "min"
        /\ frames' = [frames EXCEPT ![t] =
              [pc |-> "next", key |-> f.key, payload |-> f.payload,
               seen |-> KeyOrder(_CACHE), pos |-> 0, best |-> None]]
        /\ UNCHANGED <<call, result, parquet_vars, heap, search_vars, email_vars>>

\* line 63: one next() of the iterator.  A dict of another size raises
\* RuntimeError; a dict of the same size with other keys raises it or goes
\* on, as the layout of the dict decides; the end of an iterator that gave
\* nothing makes min() raise ValueError.
min_next(t) ==
    LET f == frames[t]
        goes_on ==
            IF f.pos >= Len(_CACHE)
            THEN IF f.best = None THEN SearchFailed("min() arg is an empty sequence")
                 ELSE [pc |-> "pop", key |-> f.key, payload |-> f.payload,
                       oldest_key |-> f.best[1].key]
            ELSE [pc |-> "lambda", key |-> f.key, payload |-> f.payload, seen |-> f.seen,
                  pos |-> f.pos + 1, best |-> f.best, k |-> _CACHE[f.pos + 1].key]
    IN  /\ f.pc = "next"
        /\ \/ /\ Len(_CACHE) # Len(f.seen)
              /\ frames' = [frames EXCEPT ![t] =
                               SearchFailed("dictionary changed size during iteration")]
           \/ /\ Len(_CACHE) = Len(f.seen) /\ KeyOrder(_CACHE) # f.seen
              /\ frames' = [frames EXCEPT ![t] =
                               SearchFailed("dictionary keys changed during iteration")]
           \/ /\ Len(_CACHE) = Len(f.seen)
              /\ frames' = [frames EXCEPT ![t] = goes_on]
        /\ UNCHANGED <<call, result, parquet_vars, heap, search_vars, email_vars>>

\* line 63: the key function, _CACHE[k][0], of the key next() gave
min_key(t) ==
    LET f == frames[t]
        i == Position(_CACHE, f.k)
        next(best) == [pc |-> "next", key |-> f.key, payload |-> f.payload, seen |-> f.seen,
                       pos |-> f.pos, best |-> best]
    IN  /\ f.pc = "lambda"
        /\ frames' = [frames EXCEPT ![t] =
              IF i = 0 THEN SearchFailed("KeyError")
              ELSE IF f.best = None \/ _CACHE[i].timestamp < f.best[1].timestamp
              THEN next(Some([key |-> f.k, timestamp |-> _CACHE[i].timestamp]))
              ELSE next(f.best)]
        /\ UNCHANGED <<call, result, parquet_vars, heap, search_vars, email_vars>>

\* line 64: _CACHE.pop(oldest_key, None)
pop_oldest(t) ==
    LET f == frames[t]
    IN  /\ f.pc = "pop"
        /\ _CACHE' = PopKey(_CACHE, f.oldest_key)
        /\ frames' = [frames EXCEPT ![t] = [pc |-> "store", key |-> f.key, payload |-> f.payload]]
        /\ UNCHANGED <<call, result, parquet_vars, heap, CACHE_TTL_SECONDS, CACHE_MAX_SIZE,
                       clock, email_vars>>

\* line 65: _CACHE[key] = (time.time(), payload), and the return of line 262
store(t) ==
    LET f == frames[t]
    IN  /\ f.pc = "store"
        /\ _CACHE' = Put(_CACHE, f.key, clock, f.payload)
        /\ frames' = [frames EXCEPT ![t] = Finished(f.payload)]
        /\ UNCHANGED <<call, result, parquet_vars, heap, CACHE_TTL_SECONDS, CACHE_MAX_SIZE,
                       clock, email_vars>>

\* the caller of thread t takes the result
leave_web_search(t) ==
    /\ frames[t].pc = "done"
    /\ frames' = [frames EXCEPT ![t] = Waiting]
    /\ UNCHANGED <<call, result, parquet_vars, heap, search_vars, email_vars>>

\* time passes, whatever the threads are at
pass ==
    /\ clock < MaxClock
    /\ clock' = clock + 1
    /\ UNCHANGED <<call, result, parquet_vars, builder_vars, CACHE_TTL_SECONDS,
                   CACHE_MAX_SIZE, _CACHE, email_vars>>

ParallelNext ==
    \/ pass
    \/ \E t \in Threads :
          \/ enter_web_search(t)
          \/ get_cached(t)
          \/ expire(t)
          \/ search(t)
          \/ set_cache(t)
          \/ min_iter(t)
          \/ min_next(t)
          \/ min_key(t)
          \/ pop_oldest(t)
          \/ store(t)
          \/ leave_web_search(t)

ParallelSpec == ParallelInit /\ [][ParallelNext]_vars

(***************************************************************************)
(* Reading a statement text, for the properties below.                     *)
(***************************************************************************)
\* how many times sub occurs in s
Occurrences(s, sub) ==
    Cardinality({i \in 1..(Len(s) - Len(sub) + 1) : SubSeq(s, i, i + Len(sub) - 1) = sub})

PlaceholderPositions(q) == {j \in 1..Len(q) : Ch(q, j) = "?"}
NumPlaceholders(q) == Cardinality(PlaceholderPositions(q))

\* the i-th smallest element of a set of numbers
Nth(S, i) == CHOOSE x \in S : Cardinality({y \in S : y < x}) = i - 1

\* the pattern [A-Za-z_][A-Za-z0-9_]* matched against the entire string
FullMatch(name) ==
    /\ Len(name) >= 1
    /\ IdentStart(Ch(name, 1))
    /\ \A i \in 2..Len(name) : IdentChar(Ch(name, i))

\* the words of a statement: the maximal runs of characters other than
\* blank, comma and parentheses
IsSeparator(c) == c \in {" ", ",", "(", ")"}

RECURSIVE WordEnd(_, _)
WordEnd(q, i) ==
    IF i < Len(q) /\ ~IsSeparator(Ch(q, i + 1)) THEN WordEnd(q, i + 1) ELSE i

Words(q) ==
    {SubSeq(q, i, WordEnd(q, i)) :
        i \in {k \in 1..Len(q) : /\ ~IsSeparator(Ch(q, k))
                                 /\ (k = 1 \/ IsSeparator(Ch(q, k - 1)))}}

\* a keyword or a function name is an identifier word too
SafeWord(w) == FullMatch(w) \/ w \in ALLOWED_OPERATORS \/ w \in {"?", "*"}

IsRead == call.op = "parquet_read"
\* _build_query was called, and returned a statement
Built == IsRead /\ built # None
BuiltQuery == Built /\ built[1][1] # None
BuiltError == Built /\ built[1][1] = None
Query == built[1][1][1]
Params == built[1][2].list

Range(f) == {f[i] : i \in DOMAIN f}

(***************************************************************************)
(* C1: _validate_identifier(name) is true if and only if the entire string *)
(* matches [A-Za-z_][A-Za-z0-9_]*: false for the empty string, for a       *)
(* leading digit and for a character outside letters, digits and           *)
(* underscore at any position, the last one included.                      *)
(***************************************************************************)
\* C1: the validator returns true exactly for the full matches of the pattern
C1_FullMatchOnly ==
    call.op = "_validate_identifier" => (result.ret <=> FullMatch(call.name))

(***************************************************************************)
(* C2: injection safety.  If a filter column, order-by column, group-by    *)
(* key or selected column of a _build_query input does not match the       *)
(* identifier pattern, the result is (None, error); and every statement    *)
(* submitted to the engine is made only of keywords, whitelisted operators *)
(* and functions, placeholders and identifiers that fully match the        *)
(* pattern.                                                                *)
(***************************************************************************)
SuppliedColumns(req) ==
    Range(req.selected_columns) \cup Range(req.group_by)
    \cup {f.column : f \in Range(req.filters)}
    \cup {e.column : e \in Range(req.order_by)}

\* C2: a non-matching column is refused, and submitted statements hold only safe words
C2_InjectionSafe ==
    /\ Built /\ (\E n \in SuppliedColumns(call) : ~FullMatch(n)) => BuiltError
    /\ IsRead => \A i \in 1..Len(engine) : \A w \in Words(engine[i].query) : SafeWord(w)

(***************************************************************************)
(* C3: in every (statement, parameters) pair that parquet_read submits to  *)
(* the engine, the number of placeholders equals the number of parameters  *)
(* and the i-th placeholder from the left is bound to the i-th parameter:  *)
(* the source path at read_parquet(?), each filter value at its own        *)
(* filter, the limit at LIMIT and the offset at OFFSET.                    *)
(***************************************************************************)
LastOpenParen(q, j) ==
    LET at == {i \in 1..(j - 1) : Ch(q, i) = "("}
    IN  IF at = {} THEN 0 ELSE CHOOSE i \in at : \A k \in at : k <= i

\* the value the placeholder at position j of q stands for, read off the
\* text around it
Intended(req, q, j) ==
    LET before == SubSeq(q, 1, j - 1)
        where == Find(q, " WHERE ")
        k == 1 + Occurrences(SubSeq(q, where, j - 1), " AND ")
        open == LastOpenParen(q, j)
        e == 1 + Cardinality({i \in open..(j - 1) : Ch(q, i) = "?"})
        in_list == Ch(q, j - 1) = "(" \/ endswith(before, "?, ")
    IN  IF endswith(before, "read_parquet(") THEN [str |-> get_secure_path(req.path)[1]]
        ELSE IF endswith(before, " LIMIT ")
        THEN IF req.limit = None THEN [nothing |-> "limit"] ELSE [int |-> req.limit[1]]
        ELSE IF endswith(before, " OFFSET ") THEN [int |-> req.offset]
        ELSE IF where = 0 \/ k > Len(req.filters) THEN [nothing |-> "filter"]
        ELSE IF ~in_list THEN req.filters[k].value
        ELSE IF ~IsList(req.filters[k].value) \/ e > Len(req.filters[k].value.list)
        THEN [nothing |-> "element"]
        ELSE [int |-> req.filters[k].value.list[e]]

Aligned(req, q, params) ==
    /\ NumPlaceholders(q) = Len(params)
    /\ \A i \in 1..Len(params) :
          params[i] = Intended(req, q, Nth(PlaceholderPositions(q), i))

\* C3: in every submitted pair the i-th placeholder stands for the i-th parameter
C3_PlaceholdersAligned ==
    IsRead => \A i \in 1..Len(engine) : Aligned(call, engine[i].query, engine[i].params)

\* a statement with an IN list and a limit was submitted
C3_Witness ==
    /\ IsRead /\ Len(engine) = 2
    /\ Contains(engine[1].query, " IN (?, ?)")
    /\ Contains(engine[1].query, " LIMIT ?")
    /\ Len(engine[1].params) = 4

(***************************************************************************)
(* C4: for every accepted QuerySpec the number of placeholders in the      *)
(* statement returned by _build_query is (non-in filters) + (sum of the    *)
(* lengths of the in lists) + (1 if limit is given) + (1 if offset is      *)
(* nonzero), and the returned parameter list has exactly that length.      *)
(* The code holds the amended form: the statement has that many            *)
(* placeholders besides those of table_expr (one, in read_parquet(?)).     *)
(***************************************************************************)
IsIn(f) == lower(f.op) = "in"

RECURSIVE Sum(_)
Sum(ns) == IF Len(ns) = 0 THEN 0 ELSE ns[1] + Sum(Tail(ns))

ValueCount(req) ==
    Sum([i \in 1..Len(req.filters) |->
            IF IsIn(req.filters[i]) THEN Len(req.filters[i].value.list) ELSE 1])
    + (IF req.limit # None THEN 1 ELSE 0)
    + (IF req.offset # 0 THEN 1 ELSE 0)

\* C4 as claimed: the statement has exactly ValueCount placeholders
C4_Original ==
    BuiltQuery => /\ NumPlaceholders(Query) = ValueCount(call)
                  /\ Len(Params) = ValueCount(call)

\* C4 as amended: ValueCount placeholders besides those of table_expr
C4_PlaceholderCount ==
    BuiltQuery => /\ NumPlaceholders(Query) = ValueCount(call) + NumPlaceholders(TABLE_EXPR)
                  /\ Len(Params) = ValueCount(call)

\* an accepted query with an in filter of two elements and a limit
C4_Witness ==
    /\ BuiltQuery
    /\ \E f \in Range(call.filters) : IsIn(f) /\ Len(f.value.list) = 2
    /\ call.limit # None
    /\ Len(Params) = 3

(***************************************************************************)
(* C5: the parameter list returned by _build_query is the filter values in *)
(* filter order (the elements of an in list in list order, one value for   *)
(* any other operator), then the limit if given, then the offset if        *)
(* nonzero, and nothing else.                                              *)
(***************************************************************************)
RECURSIVE Flatten(_)
Flatten(seqs) == IF Len(seqs) = 0 THEN <<>> ELSE seqs[1] \o Flatten(Tail(seqs))

FilterValuesOf(f) ==
    IF IsIn(f) THEN [i \in 1..Len(f.value.list) |-> [int |-> f.value.list[i]]]
    ELSE <<f.value>>

ExpectedParams(req) ==
    Flatten([i \in 1..Len(req.filters) |-> FilterValuesOf(req.filters[i])])
    \o (IF req.limit # None THEN <<[int |-> req.limit[1]]>> ELSE <<>>)
    \o (IF req.offset # 0 THEN <<[int |-> req.offset]>> ELSE <<>>)

\* C5: the parameters are the filter values in order, then limit, then offset
C5_ParameterOrder == BuiltQuery => Params = ExpectedParams(call)

\* an in filter of two elements followed by a limit
C5_Witness ==
    /\ BuiltQuery
    /\ Len(Params) = 3
    /\ Len(call.filters) = 1 /\ IsIn(call.filters[1])
    /\ call.limit = Some(5)

(***************************************************************************)
(* C6: _build_query returns exactly one of a statement and an error: a     *)
(* non-empty statement with a parameter list, or None with a dict that has *)
(* the key "error"; and when it returns an error, parquet_read returns     *)
(* that dict and executes nothing on the engine.                           *)
(***************************************************************************)
\* C6: a statement with a list, or None with an error that parquet_read returns
C6_QueryOrError ==
    Built =>
        \/ /\ built[1][1] # None
           /\ Len(Query) > 0
           /\ DOMAIN built[1][2] = {"list"}
        \/ /\ built[1][1] = None
           /\ "error" \in DOMAIN built[1][2]
           /\ "list" \notin DOMAIN built[1][2]
           /\ result = built[1][2]
           /\ engine = <<>>

\* the builder refused a request whose file exists
C6_Witness == BuiltError /\ result = built[1][2] /\ startswith(result.error, "Invalid column name: ")

(***************************************************************************)
(* C7: the projection.  With a non-empty group_by the SELECT list is the   *)
(* group-by columns in input order followed by one func(column) [AS alias] *)
(* per aggregate in input order, and selected_columns plays no part;       *)
(* otherwise it is selected_columns in the given order if non-empty, and   *)
(* otherwise "*".                                                          *)
(***************************************************************************)
\* the text between "SELECT " and " FROM "
SelectList(q) == SubSeq(q, Len("SELECT ") + 1, Find(q, " FROM ") - 1)

AggregateExpr(agg) ==
    lower(agg.op) \o "(" \o agg.column \o ")"
    \o (IF agg.alias # "" THEN " AS " \o agg.alias ELSE "")

ExpectedProjection(req) ==
    IF Len(req.group_by) > 0
    THEN join(", ", req.group_by
                    \o [i \in 1..Len(req.aggregates) |-> AggregateExpr(req.aggregates[i])])
    ELSE IF Len(req.selected_columns) > 0 THEN join(", ", req.selected_columns)
    ELSE "*"

\* C7: the SELECT list follows the projection rule
C7_Projection ==
    BuiltQuery => /\ startswith(Query, "SELECT ")
                  /\ SelectList(Query) = ExpectedProjection(call)

\* a grouped query with an aliased aggregate
C7_Witness ==
    /\ BuiltQuery
    /\ call.group_by = <<"a">>
    /\ Len(call.aggregates) = 1 /\ call.aggregates[1].alias = "t"
    /\ SelectList(Query) = "a, sum(b_1) AS t"

(***************************************************************************)
(* C8: limit and offset.  The statement has " LIMIT ?", with the limit as  *)
(* a parameter, if and only if a limit is given, limit = 0 included; it    *)
(* has " OFFSET ?", with the offset as a parameter, if and only if the     *)
(* offset is nonzero; LIMIT precedes OFFSET; and OFFSET can be rendered    *)
(* without LIMIT.                                                          *)
(***************************************************************************)
\* C8: LIMIT ? iff a limit is given, OFFSET ? iff the offset is nonzero, in this order
C8_LimitOffset ==
    BuiltQuery =>
        LET has_limit == Contains(Query, " LIMIT ?")
            has_offset == Contains(Query, " OFFSET ?")
            n == Len(Params)
        IN  /\ has_limit <=> call.limit # None
            /\ has_offset <=> call.offset # 0
            /\ has_offset => n >= 1 /\ Params[n] = [int |-> call.offset]
            /\ has_limit =>
                  LET at == IF has_offset THEN n - 1 ELSE n
                  IN  at >= 1 /\ Params[at] = [int |-> call.limit[1]]
            /\ has_limit /\ has_offset =>
                  /\ Find(Query, " LIMIT ?") < Find(Query, " OFFSET ?")
                  /\ endswith(Query, " LIMIT ? OFFSET ?")
            /\ has_offset /\ ~has_limit => endswith(Query, " OFFSET ?")
            /\ has_limit /\ ~has_offset => endswith(Query, " LIMIT ?")

\* a limit of 0 is rendered
C8_Witness ==
    /\ BuiltQuery /\ call.limit = Some(0)
    /\ endswith(Query, " LIMIT ?") /\ Params[Len(Params)] = [int |-> 0]

\* an OFFSET clause rendered without a LIMIT clause
C8_OffsetAlone ==
    BuiltQuery /\ call.limit = None /\ endswith(Query, " OFFSET ?")

(***************************************************************************)
(* C9: a filter operator, an aggregate function (under a non-empty         *)
(* group_by) or an order direction is accepted if and only if its          *)
(* lower-cased string is in the whitelist, a missing direction counting as *)
(* asc; otherwise _build_query returns an error, and the message names the *)
(* operator, function or direction that was supplied (C9_Original reads    *)
(* "names" without regard to letter case).                                 *)
(* The code holds the amended form: the error returned is the first one    *)
(* met, so the message names a non-whitelisted string only when no         *)
(* identifier or IN value fails first, and it names its lower-cased form.  *)
(***************************************************************************)
DirectionOf(entry) == IF entry.direction = None THEN "asc" ELSE entry.direction[1]

\* the supplied strings that are not whitelisted, with the message prefix
\* of their kind
Refused(req) ==
    {<<"Unsupported operator: ", f.op>> :
        f \in {x \in Range(req.filters) : lower(x.op) \notin ALLOWED_OPERATORS}}
    \cup {<<"Unsupported aggregate: ", a.op>> :
        a \in {x \in Range(req.aggregates) :
                 Len(req.group_by) > 0 /\ lower(x.op) \notin ALLOWED_AGGREGATES}}
    \cup {<<"Unsupported order direction: ", DirectionOf(e)>> :
        e \in {x \in Range(req.order_by) : lower(DirectionOf(x)) \notin ALLOWED_ORDER}}

IsUnsupportedError(e) ==
    /\ "error" \in DOMAIN e
    /\ startswith(e.error, "Unsupported ")

\* the errors of the other checks: an identifier, the value of an IN filter
IsEarlierError(e) ==
    /\ "error" \in DOMAIN e
    /\ \/ startswith(e.error, "Invalid column name: ")
       \/ e.error = "IN operator requires a non-empty list value"

\* every identifier passes the validator and every IN filter has a
\* non-empty list
OtherChecksPass(req) ==
    /\ \A n \in SuppliedColumns(req) : _validate_identifier(n)
    /\ Len(req.group_by) > 0 =>
          \A a \in Range(req.aggregates) :
              /\ _validate_identifier(a.column)
              /\ a.alias # "" => _validate_identifier(a.alias)
    /\ \A f \in Range(req.filters) :
          IsIn(f) => IsList(f.value) /\ Len(f.value.list) > 0

\* C9 as claimed: a refused string always yields an error that names it
C9_Original ==
    Built =>
        /\ Refused(call) = {} => ~IsUnsupportedError(built[1][2])
        /\ Refused(call) # {} =>
              /\ BuiltError
              /\ \E r \in Refused(call) :
                    lower(built[1][2].error) = lower(r[1] \o r[2])

\* C9 as amended: the error names it unless an earlier check fails first
C9_Whitelists ==
    Built =>
        /\ Refused(call) = {} => ~IsUnsupportedError(built[1][2])
        /\ Refused(call) # {} =>
              /\ BuiltError
              /\ \/ IsEarlierError(built[1][2])
                 \/ \E r \in Refused(call) : built[1][2].error = r[1] \o lower(r[2])
              /\ OtherChecksPass(call) => IsUnsupportedError(built[1][2])

\* a function that is not whitelisted, supplied in mixed case, is refused
\* under its lower-cased name
C9_Witness ==
    /\ BuiltError
    /\ Refused(call) = {<<"Unsupported aggregate: ", "Median">>}
    /\ result = [error |-> "Unsupported aggregate: median"]

\* an operator supplied in upper case is accepted
C9_UpperCaseAccepted ==
    BuiltQuery /\ \E f \in Range(call.filters) : f.op = "IN"

(***************************************************************************)
(* C10: every filter of a built query satisfies the Filter invariant: with *)
(* the operator in its value is a non-empty list (anything else is refused *)
(* with "IN operator requires a non-empty list value"), and with any other *)
(* operator its value is a single scalar, not a sequence.                  *)
(***************************************************************************)
\* an in filter whose value is not a non-empty list
BadInValue(req) ==
    \E f \in Range(req.filters) : IsIn(f) /\ (~IsList(f.value) \/ Len(f.value.list) = 0)

\* nothing but such a value is wrong with the request
OtherFiltersFine(req) ==
    /\ Refused(req) = {}
    /\ \A n \in SuppliedColumns(req) : _validate_identifier(n)
    /\ Len(req.group_by) > 0 =>
          \A a \in Range(req.aggregates) :
              /\ _validate_identifier(a.column)
              /\ a.alias # "" => _validate_identifier(a.alias)

\* C10: an in filter has a non-empty list, any other filter has a scalar
C10_FilterInvariant ==
    /\ BuiltQuery =>
          \A f \in Range(call.filters) :
              IF IsIn(f) THEN IsList(f.value) /\ Len(f.value.list) > 0
              ELSE ~IsList(f.value)
    /\ Built /\ OtherFiltersFine(call) /\ BadInValue(call) =>
          /\ BuiltError
          /\ built[1][2] = [error |-> "IN operator requires a non-empty list value"]

(***************************************************************************)
(* The Parquet handlers on the file system.                                *)
(***************************************************************************)
IsWrite == call.op = "parquet_write"
IsInfo == call.op = "parquet_info"
IsParquetCall == IsRead \/ IsWrite \/ IsInfo

Succeeded == "success" \in DOMAIN result /\ result.success = TRUE
Failed == "error" \in DOMAIN result

\* the last eight characters of the path are . p a r q u e t, in any case
EndsInParquet(path) ==
    /\ Len(path) >= 8
    /\ \A i \in 1..8 : lower_char(Ch(path, Len(path) - 8 + i)) = Ch(".parquet", i)

\* nothing has left the process: no resolution, no directory, no check of
\* the file, no engine
NothingTouched == io = <<>> /\ engine = <<>> /\ built = None

NegativeWindow == IsRead /\ (call.offset < 0 \/ (call.limit # None /\ call.limit[1] < 0))

\* where the handler resolved the path of the call to
Resolved == get_secure_path(call.path)

(***************************************************************************)
(* C11: a path without the .parquet extension is rejected before anything  *)
(* leaves the process.  As stated, the error always mentions ".parquet";   *)
(* parquet_read checks offset and limit first, and a request that is       *)
(* wrong on both counts is rejected with the message of that check.        *)
(***************************************************************************)
\* C11 as stated: read, write and info reject a path not ending in .parquet with an error mentioning ".parquet" and touch nothing
C11_Original ==
    IsParquetCall /\ ~EndsInParquet(call.path) =>
        Failed /\ Contains(result.error, ".parquet") /\ NothingTouched

\* C11: read, write and info reject a path not ending in .parquet (any case) before any resolution, directory creation, existence check or engine call, with an error that mentions ".parquet" unless parquet_read rejects a negative offset or limit first; a path ending in .parquet in any case is not rejected for its extension
C11_ExtensionFirst ==
    /\ IsParquetCall /\ ~EndsInParquet(call.path) =>
        /\ Failed /\ ~Succeeded
        /\ NothingTouched
        /\ IF NegativeWindow
           THEN result.error = "offset and limit must be non-negative"
           ELSE Contains(result.error, ".parquet")
    /\ IsParquetCall /\ EndsInParquet(call.path) /\ Failed =>
        ~Contains(result.error, ".parquet extension")

C11_Witness ==
    /\ IsWrite /\ call.path = "d.txt" /\ Len(call.columns) > 0
    /\ result = [error |-> "File must have .parquet extension"]

\* an upper-case extension is accepted
C11_UpperCaseAccepted == IsInfo /\ call.path = "D.PARQUET" /\ Succeeded

(***************************************************************************)
(* C12: parquet_read and parquet_info that find no file at the resolved    *)
(* path report "File not found" and never reach the engine.  The case is   *)
(* a call that came to check the path it resolved.                         *)
(***************************************************************************)
CheckedMissing ==
    /\ IsRead \/ IsInfo
    /\ Len(io) >= 3 /\ io[3] = "exists"
    /\ ~exists(files, Resolved[1])

\* C12: when parquet_read or parquet_info finds that the resolved path does not exist, the error starts with "File not found", no connection is opened, no statement is executed, and the error is not of the form "Failed to read parquet..."
C12_FileNotFound ==
    CheckedMissing =>
        /\ Failed /\ startswith(result.error, "File not found")
        /\ ~startswith(result.error, "Failed to read parquet")
        /\ engine = <<>>
        /\ \A i \in 1..Len(io) : io[i] \notin {"connect", "execute"}

C12_Witness ==
    /\ IsRead /\ call.path = "m.parquet" /\ Len(call.filters) = 1
    /\ result = [error |-> "File not found: m.parquet"]
    /\ "/ws/m.parquet" \notin DOMAIN files

(***************************************************************************)
(* C13: the three handlers return a dict with "success": true or with      *)
(* "error", one and only one of them, whatever fails, and submit no        *)
(* statement a second time.                                                *)
(***************************************************************************)
\* how many steps of the call are s
Steps(s) == Cardinality({i \in 1..Len(io) : io[i] = s})

\* C13: every parquet_read, parquet_write and parquet_info call returns a dict that has "success": true or an "error" key, never both and never neither, also when path resolution, query construction or the engine fails; a connection is opened at most once and no statement is submitted twice
C13_UniformResult ==
    IsParquetCall =>
        /\ Succeeded # Failed
        /\ "raised" \notin DOMAIN result
        /\ Steps("connect") <= 1 /\ Steps("get_secure_path") <= 1
        /\ Steps("execute") = Len(engine)
        /\ \A i, j \in 1..Len(engine) : engine[i] = engine[j] => i = j
        /\ Failed /\ Len(engine) > 0 => ~Succeeded /\ Len(engine) <= 2

C13_Witness ==
    /\ IsWrite /\ engine # <<>>
    /\ result = [error |-> "Failed to write parquet: engine error"]

(***************************************************************************)
(* C14: total_rows of a successful parquet_read is the number of rows of   *)
(* the file, whatever the request selects; the counts are the lengths of   *)
(* the lists returned with them, and a limit bounds the rows.              *)
(***************************************************************************)
\* C14: in every successful parquet_read result total_rows is the number of rows stored in the file, whatever filters, grouping, aggregates, order, columns, limit and offset are; row_count is the length of rows, column_count the length of columns, and row_count is at most a given limit
C14_TotalRows ==
    IsRead /\ Succeeded =>
        /\ result.total_rows = files[Resolved[1]].rows
        /\ result.row_count = Len(result.rows)
        /\ result.column_count = Len(result.columns)
        /\ call.limit # None => result.row_count <= call.limit[1]

C14_Witness ==
    /\ IsRead /\ Succeeded
    /\ Len(call.filters) = 1 /\ call.limit = Some(1) /\ call.offset = 1
    /\ result.row_count = 1 /\ result.total_rows = 3

(***************************************************************************)
(* C15: what parquet_write stores is what parquet_read counts.  A write    *)
(* that succeeds stores as many rows as it was given and reports that      *)
(* number; nothing else changes a file; a read with every argument at its  *)
(* default that the engine does not fail returns all the rows stored.      *)
(***************************************************************************)
WriteStep == call = NoCall /\ call'.op = "parquet_write"
ReadStep == call = NoCall /\ call'.op = "parquet_read"
Destination == get_secure_path(call'.path)[1]

\* C15: a successful parquet_write of n rows with a non-empty column list reports rows_written = n and stores n rows at the path, a parquet_read of a stored path with no filters, grouping, limit or offset that the engine does not fail returns success with row_count = total_rows = the rows stored by the last successful write, and parquet_write with an empty column list returns an error and writes nothing
C15_RoundTrip ==
    [][/\ WriteStep /\ "success" \in DOMAIN result' =>
            /\ Len(call'.columns) > 0
            /\ result'.rows_written = Len(call'.rows)
            /\ exists(files', Destination)
            /\ files'[Destination].rows = Len(call'.rows)
       /\ WriteStep /\ Len(call'.columns) = 0 =>
            "error" \in DOMAIN result' /\ files' = files /\ engine' = <<>> /\ io' = <<>>
       /\ files' # files => WriteStep /\ "success" \in DOMAIN result'
       /\ ReadStep /\ call' = DefaultRead(call'.path) /\ has_parquet_extension(call'.path)
           /\ get_secure_path(call'.path) # None /\ exists(files, Destination) =>
            \/ result' = [error |-> "Failed to read parquet: engine error"]
            \/ /\ "success" \in DOMAIN result'
               /\ result'.row_count = files[Destination].rows
               /\ result'.total_rows = files[Destination].rows]_vars

C15_Witness ==
    /\ call = DefaultRead("m.parquet") /\ Succeeded
    /\ result.row_count = 2 /\ result.total_rows = 2

(***************************************************************************)
(* C16: concurrent invocations of _build_query do not disturb one another. *)
(***************************************************************************)
\* what the invocation of a frame returns when it runs alone on the lists it was given
Alone(frame) ==
    _build_query(TABLE_EXPR, frame.given[1].selected_columns, frame.given[1].filters,
                 frame.given[1].group_by, frame.given[1].order_by, frame.args[1].limit,
                 frame.args[1].offset, frame.given[1].aggregates)

\* C16: in every interleaving of the steps of concurrent _build_query invocations, also on shared list objects, no input list is modified and each invocation returns exactly the (statement, parameters) or error it returns when run alone
C16_Isolated ==
    \A t \in Threads :
        /\ frames[t].pc # "idle" => Given(heap, frames[t].args[1]) = frames[t].given[1]
        /\ frames[t].pc = "done" => frames[t].ret = Some(Alone(frames[t]))

\* both invocations group by the same list object, one of them with
\* aggregates, and both have returned a statement
C16_Witness ==
    /\ frames[1].pc = "done" /\ frames[2].pc = "done"
    /\ frames[1].args[1].group_by = Some("names") /\ frames[2].args[1].group_by = Some("names")
    /\ frames[1].args[1].aggregates # None /\ frames[2].args[1].aggregates = None
    /\ frames[1].ret[1][1] = Some("SELECT a, sum(b_1) AS t FROM read_parquet(?) WHERE a IN (?, ?) GROUP BY a")
    /\ frames[2].ret[1][1] = Some("SELECT a FROM read_parquet(?) WHERE a IN (?, ?) GROUP BY a")

(***************************************************************************)
(* The cache of web_search.                                                *)
(***************************************************************************)
IsSearch == call.op = "web_search"
SearchStep == call = NoCall /\ call'.op = "web_search"

Keys(cache) == {cache[i].key : i \in 1..Len(cache)}
Entry(cache, key) == CHOOSE e \in Range(cache) : e.key = key

\* the provider a request is sent to, and the key it is cached under
ResolvedProvider(req) ==
    IF req.provider = "brave" \/ (req.provider = "auto" /\ req.brave_api_key)
    THEN "brave" ELSE "google"

HasCredentials(req) ==
    IF ResolvedProvider(req) = "brave" THEN req.brave_api_key
    ELSE req.google_api_key /\ req.google_cse_id

KeyOf(req) ==
    ResolvedProvider(req) \o "|" \o req.query \o "|10|" \o req.country \o "|" \o req.language

\* the request passes the checks made before the cache is looked up
LooksUp(req) == Len(req.query) \in 1..500 /\ HasCredentials(req)

\* steps of a call: a request to a provider, a store, an eviction
Asked(steps) == \E i \in 1..Len(steps) : steps[i].op = "httpx.get"
Stored(steps) == \E i \in 1..Len(steps) : steps[i].op = "set"

\* stored more than CACHE_TTL_SECONDS before the instant now
Stale(entry, now) == now - entry.timestamp > CACHE_TTL_SECONDS

(***************************************************************************)
(* C17: the cache never holds more than CACHE_MAX_SIZE entries (none when  *)
(* the setting is zero or negative), and a store into a full cache takes   *)
(* away one entry, one with the smallest timestamp.                        *)
(***************************************************************************)
\* C17: after every step the number of entries of _CACHE is at most CACHE_MAX_SIZE and zero when CACHE_MAX_SIZE <= 0; only a web_search that stores a response changes which keys are cached, besides removing its own expired entry; a store into a full cache of a key not cached removes exactly one other entry, and an entry removed by a store has the smallest timestamp of the entries
C17_SizeBounded ==
    [][LET key == KeyOf(call')
           before == {e \in Range(_CACHE) :
                        ~(SearchStep /\ e.key = key /\ CACHE_TTL_SECONDS > 0 /\ Stale(e, clock))}
           gone == {e \in before : e.key \notin Keys(_CACHE')}
       IN  /\ Len(_CACHE') <= (IF CACHE_MAX_SIZE > 0 THEN CACHE_MAX_SIZE ELSE 0)
           /\ Cardinality(Keys(_CACHE')) = Len(_CACHE')
           /\ ~(SearchStep /\ Stored(io')) => gone = {} /\ Keys(_CACHE') \subseteq Keys(_CACHE)
           /\ SearchStep /\ Stored(io') =>
                /\ key \in Keys(_CACHE') /\ Entry(_CACHE', key).timestamp = clock
                /\ Cardinality(gone) <= 1
                /\ Cardinality(before) < CACHE_MAX_SIZE => gone = {}
                /\ Cardinality(before) >= CACHE_MAX_SIZE /\ key \notin Keys(_CACHE)
                       => Cardinality(gone) = 1
                /\ \A g \in gone : \A e \in before : g.timestamp <= e.timestamp
                /\ \A e \in before \ gone : e.key # key => e \in Range(_CACHE')]_vars

\* a store into a full cache of two entries has evicted the older one
C17_Witness ==
    /\ IsSearch /\ CACHE_MAX_SIZE = 2 /\ Len(_CACHE) = 2
    /\ Len(io) = 3 /\ io[2].op = "pop" /\ io[2].why = "oldest" /\ io[3].op = "set"
    /\ io[2].key \notin Keys(_CACHE)
    /\ _CACHE[2].key = KeyOf(call) /\ _CACHE[2].timestamp = clock

(***************************************************************************)
(* C18: a response is served from the cache only while it is at most       *)
(* CACHE_TTL_SECONDS old; an older one is dropped and fetched again.       *)
(***************************************************************************)
\* C18: a web_search answered without a provider request returns the response stored under its key at most CACHE_TTL_SECONDS ago, which never happens when CACHE_TTL_SECONDS <= 0; a call that looks up a key whose entry is older removes that entry and asks the provider; a call that looks up a key whose entry is within the TTL returns the stored response, asks no provider and leaves the cache as it is
C18_TimeBounded ==
    [][SearchStep =>
        LET key == KeyOf(call')
            cached == key \in Keys(_CACHE)
            old == Entry(_CACHE, key)
        IN  /\ clock' = clock
            /\ ~Asked(io') /\ "results" \in DOMAIN result' =>
                   /\ CACHE_TTL_SECONDS > 0
                   /\ cached /\ ~Stale(old, clock)
                   /\ result' = old.payload
            /\ LooksUp(call') /\ CACHE_TTL_SECONDS <= 0 => Asked(io')
            /\ LooksUp(call') /\ CACHE_TTL_SECONDS > 0 /\ cached /\ Stale(old, clock) =>
                   /\ Asked(io')
                   /\ old \notin Range(_CACHE')
            /\ LooksUp(call') /\ CACHE_TTL_SECONDS > 0 /\ cached /\ ~Stale(old, clock) =>
                   /\ ~Asked(io')
                   /\ result' = old.payload
                   /\ _CACHE' = _CACHE]_vars

\* an entry stored at 0 was found at 2 with a TTL of 1, dropped and fetched again
C18_Witness ==
    /\ IsSearch /\ CACHE_TTL_SECONDS = 1 /\ clock = 2
    /\ Len(io) >= 2 /\ io[1].op = "pop" /\ io[1].why = "expired" /\ io[2].op = "httpx.get"
    /\ "results" \in DOMAIN result /\ result.results[1].fetched_at = 2

\* an entry stored at 0 was served at 2, the last instant of a TTL of 2
C18_ServedAtTtl ==
    /\ IsSearch /\ CACHE_TTL_SECONDS = 2 /\ clock = 2 /\ io = <<>>
    /\ "results" \in DOMAIN result /\ result.results[1].fetched_at = 0

(***************************************************************************)
(* send_email.                                                             *)
(***************************************************************************)
IsEmail == call.op = "send_email"

\* a string with a character that is not white space
NonBlank(s) == \E i \in 1..Len(s) : Ch(s, i) \notin WHITESPACE

IsKept(element) == "str" \in DOMAIN element /\ NonBlank(element.str)

\* what a recipient argument stands for: its non-blank strings in their
\* order, None if there is none
Recipients(value) ==
    IF "none" \in DOMAIN value THEN None
    ELSE IF "str" \in DOMAIN value
    THEN IF NonBlank(value.str) THEN Some(<<value.str>>) ELSE None
    ELSE LET kept == SelectSeq(value.list, IsKept)
         IN  IF kept = <<>> THEN None ELSE Some([i \in 1..Len(kept) |-> kept[i].str])

Overridden == call.EMAIL_OVERRIDE_TO # None /\ call.EMAIL_OVERRIDE_TO[1] # ""

\* the message handed to the provider, and whether it names a recipient
\* list under a key of the payload or a header of the message
Sent == IF outbox[1].provider = "resend" THEN outbox[1].payload ELSE outbox[1].msg
ToOf(m) == IF "to" \in DOMAIN m THEN m.to ELSE split(m.To, ", ")
HasCc(m) == "cc" \in DOMAIN m \/ "Cc" \in DOMAIN m
HasBcc(m) == "bcc" \in DOMAIN m \/ "Bcc" \in DOMAIN m
CcOf(m) == IF "cc" \in DOMAIN m THEN m.cc ELSE split(m.Cc, ", ")
BccOf(m) == IF "bcc" \in DOMAIN m THEN m.bcc ELSE split(m.Bcc, ", ")

(***************************************************************************)
(* C19: what to, cc and bcc are normalised to, read off the message the    *)
(* provider is handed when no override address redirects it.               *)
(***************************************************************************)
\* C19: a to that stands for no recipient yields the recipient error and no message; in every message handed to a provider a cc or bcc that stands for no recipient is absent; without an override address the message carries for to, cc and bcc the single string as a one-element list or the non-blank string elements of the list in their order
C19_Recipients ==
    IsEmail =>
        /\ Recipients(call.to) = None =>
              /\ result = [error |-> "At least one recipient email is required"]
              /\ outbox = <<>>
        /\ outbox # <<>> =>
              /\ Len(outbox) = 1
              /\ Recipients(call.to) # None
              /\ Recipients(call.cc) = None => ~HasCc(Sent)
              /\ Recipients(call.bcc) = None => ~HasBcc(Sent)
              /\ ~Overridden =>
                    /\ ToOf(Sent) = Recipients(call.to)[1]
                    /\ Recipients(call.cc) # None =>
                          HasCc(Sent) /\ CcOf(Sent) = Recipients(call.cc)[1]
                    /\ Recipients(call.bcc) # None =>
                          HasBcc(Sent) /\ BccOf(Sent) = Recipients(call.bcc)[1]

\* a list with blank and non-blank strings as cc, a blank string as bcc
C19_Witness ==
    /\ IsEmail /\ outbox # <<>> /\ outbox[1].provider = "resend"
    /\ call.cc = [list |-> <<[str |-> ""], [str |-> "b@x"], [str |-> "  "], [str |-> "a@x"]>>]
    /\ call.bcc = [str |-> " \t"]
    /\ Sent.to = <<"a@x">> /\ Sent.cc = <<"b@x", "a@x">> /\ ~HasBcc(Sent)

(***************************************************************************)
(* C20: the checks of send_email come before any provider is contacted.    *)
(***************************************************************************)
NoRecipient == Recipients(call.to) = None
BadSubject == Len(call.subject) = 0 \/ Len(call.subject) > 998
NoBody == call.html = ""
Unset(x) == x = None \/ x[1] = ""
NoSender == Unset(call.from_email) /\ Unset(call.EMAIL_FROM)
NoCredential ==
    IF call.provider = "gmail" THEN Unset(call.GOOGLE_ACCESS_TOKEN)
    ELSE Unset(call.RESEND_API_KEY)

C20_GmailWithoutSender ==
    IsEmail /\ call.provider = "gmail" /\ NoSender /\ Succeeded /\ outbox # <<>>

(***************************************************************************)
(* C21: with EMAIL_OVERRIDE_TO set to an address, the message a provider   *)
(* is handed goes to that address alone.                                   *)
(***************************************************************************)
SubjectOf(m) == IF "subject" \in DOMAIN m THEN m.subject ELSE m.Subject

\* the keys of a Resend payload and the headers of a Gmail message that
\* carry no recipient besides to
Unaddressed == {"from", "to", "subject", "html", "From", "To", "Subject", "body"}

\* C21: when EMAIL_OVERRIDE_TO is set to a non-empty address, every message handed to a provider has the to list [EMAIL_OVERRIDE_TO], no cc and no bcc, nothing else that carries a recipient, and the subject "[TEST -> " followed by the original to recipients joined by ", ", "] " and the original subject; a successful result reports the override address as to
C21_OverrideOnly ==
    IsEmail /\ Overridden /\ outbox # <<>> =>
        /\ Len(outbox) = 1
        /\ ToOf(Sent) = <<call.EMAIL_OVERRIDE_TO[1]>>
        /\ ~HasCc(Sent) /\ ~HasBcc(Sent)
        /\ DOMAIN Sent \subseteq Unaddressed
        /\ SubjectOf(Sent)
              = "[TEST -> " \o join(", ", Recipients(call.to)[1]) \o "] " \o call.subject
        /\ Succeeded => result.to = <<call.EMAIL_OVERRIDE_TO[1]>>

\* a Gmail message with a cc list redirected to the override address
C21_Witness ==
    /\ IsEmail /\ Overridden /\ call.provider = "gmail" /\ Recipients(call.cc) # None
    /\ Succeeded /\ Len(outbox) = 1
    /\ Sent.To = "o@x" /\ ~HasCc(Sent) /\ Sent.Subject = "[TEST -> a@x] Test"

\* an empty EMAIL_OVERRIDE_TO redirects nothing
C21_EmptyOverrideIgnored ==
    /\ IsEmail /\ call.EMAIL_OVERRIDE_TO = Some("") /\ Succeeded
    /\ ToOf(Sent) = <<"a@x">> /\ SubjectOf(Sent) = "Test"

(***************************************************************************)
(* C22: a provider that fails makes send_email return an error dict, not   *)
(* raise.                                                                  *)
(***************************************************************************)
\* the reply of the provider that was handed the message
Reply == io[1]
ProviderFailed == "raises" \in DOMAIN Reply \/ Reply.status # 200

\* C22: a send_email call whose body runs never raises; when the provider that was handed the message raises any exception or answers with a status other than 200 the result is a dict with "error" and without "success", with "help" when Gmail answers 401, and when it answers 200 the result has "success"; an exception leaves send_email only as the TypeError of a call that omits a required argument
C22_NeverRaises ==
    /\ IsEmail =>
          /\ "raised" \notin DOMAIN result
          /\ Failed \/ Succeeded
          /\ outbox # <<>> =>
                /\ ProviderFailed => Failed /\ ~Succeeded
                /\ ~ProviderFailed => Succeeded /\ ~Failed
                /\ call.provider = "gmail" /\ "status" \in DOMAIN Reply /\ Reply.status = 401
                      => "help" \in DOMAIN result
    /\ "raised" \in DOMAIN result =>
          /\ call.op = "send_email(**given)" /\ call.given # REQUIRED
          /\ result.raised = "TypeError"
          /\ outbox = <<>>

\* the transport of the Gmail request raised after the message was built
C22_Witness ==
    /\ IsEmail /\ call.provider = "gmail" /\ Len(outbox) = 1
    /\ Reply = [raises |-> "ConnectError"]
    /\ result = [error |-> "Email send failed: ConnectError"]

\* Gmail answering 401
C22_GmailUnauthorized ==
    /\ IsEmail /\ call.provider = "gmail" /\ Len(outbox) = 1 /\ Reply = [status |-> 401]
    /\ result.error = "Gmail token expired or invalid" /\ "help" \in DOMAIN result

\* a call without the provider argument
C22_ProviderOmitted ==
    /\ call.op = "send_email(**given)" /\ call.given = REQUIRED \ {"provider"}
    /\ result = [raised |-> "TypeError"]

(***************************************************************************)
(* C27: the length of the subject a provider is handed.                    *)
(***************************************************************************)
\* C27: for every send_email call that reaches a provider, the subject handed to the provider is between 1 and 998 characters long, also when EMAIL_OVERRIDE_TO is set
C27_SubjectBounded ==
    IsEmail /\ outbox # <<>> =>
        Len(SubjectOf(Sent)) >= 1 /\ Len(SubjectOf(Sent)) <= SUBJECT_MAX_CHARS

\* without an override the subject handed on is the argument, of 1 to 998
\* characters
C27_BoundedWithoutOverride ==
    IsEmail /\ outbox # <<>> /\ ~Overridden =>
        SubjectOf(Sent) = call.subject /\ Len(call.subject) \in 1..SUBJECT_MAX_CHARS

(***************************************************************************)
(* C23: the order of the clauses of a statement and how the entries of a   *)
(* clause are joined.                                                      *)
(***************************************************************************)
\* one condition of the WHERE clause, one entry of the ORDER BY clause
ExpectedCondition(f) ==
    IF IsIn(f)
    THEN f.column \o " IN (" \o join(", ", [i \in 1..Len(f.value.list) |-> "?"]) \o ")"
    ELSE f.column \o " " \o lower(f.op) \o " ?"

ExpectedOrderEntry(entry) ==
    entry.column \o " " \o (IF entry.direction = None THEN "ASC" ELSE upper(entry.direction[1]))

\* a clause: nothing without entries, else the keyword and the joined entries
Clause(keyword, sep, entries) == IF entries = <<>> THEN "" ELSE keyword \o join(sep, entries)

ExpectedStatement(req) ==
    "SELECT " \o ExpectedProjection(req) \o " FROM " \o TABLE_EXPR
    \o Clause(" WHERE ", " AND ",
              [i \in 1..Len(req.filters) |-> ExpectedCondition(req.filters[i])])
    \o Clause(" GROUP BY ", ", ", req.group_by)
    \o Clause(" ORDER BY ", ", ",
              [i \in 1..Len(req.order_by) |-> ExpectedOrderEntry(req.order_by[i])])
    \o (IF req.limit # None THEN " LIMIT ?" ELSE "")
    \o (IF req.offset # 0 THEN " OFFSET ?" ELSE "")

CLAUSE_KEYWORDS == <<"SELECT ", " FROM ", " WHERE ", " GROUP BY ", " ORDER BY ", " LIMIT ?", " OFFSET ?">>

\* the keywords that occur in q occur once, in the order of CLAUSE_KEYWORDS
InClauseOrder(q) ==
    /\ \A i \in 1..Len(CLAUSE_KEYWORDS) : Occurrences(q, CLAUSE_KEYWORDS[i]) <= 1
    /\ \A i, j \in 1..Len(CLAUSE_KEYWORDS) :
          i < j /\ Contains(q, CLAUSE_KEYWORDS[i]) /\ Contains(q, CLAUSE_KEYWORDS[j])
              => Find(q, CLAUSE_KEYWORDS[i]) < Find(q, CLAUSE_KEYWORDS[j])

\* C23: every statement _build_query returns is SELECT projection FROM table_expr followed by WHERE, GROUP BY, ORDER BY, LIMIT, OFFSET in this order; WHERE is present exactly when there are filters and holds their conditions in input order joined by AND, GROUP BY exactly when there are group-by keys and holds them in input order joined by commas, ORDER BY exactly when there are order entries and holds column and upper-cased direction of each in input order joined by commas, LIMIT only if a limit is given and OFFSET only if an offset is given
C23_ClauseOrder ==
    BuiltQuery =>
        /\ Query = ExpectedStatement(call)
        /\ InClauseOrder(Query)
        /\ startswith(Query, "SELECT ") /\ Contains(Query, " FROM ")
        /\ Contains(Query, " WHERE ") <=> call.filters # <<>>
        /\ Contains(Query, " GROUP BY ") <=> call.group_by # <<>>
        /\ Contains(Query, " ORDER BY ") <=> call.order_by # <<>>
        /\ Contains(Query, " LIMIT ?") => call.limit # None
        /\ Contains(Query, " OFFSET ?") => call.offset # 0

\* a statement with every clause
C23_Witness ==
    /\ BuiltQuery
    /\ call.aggregates # <<>>
    /\ Query = "SELECT b_1, a, sum(b_1) AS t FROM read_parquet(?) WHERE a IN (?, ?) AND b_1 >= ? GROUP BY b_1, a ORDER BY b_1 DESC, a ASC LIMIT ? OFFSET ?"

(***************************************************************************)
(* C24: without group_by the aggregates play no part.                      *)
(***************************************************************************)
\* the request with the aggregates argument left out
WithoutAggregates(req) == [req EXCEPT !.aggregates = <<>>]

\* what _build_query returns for a request read from the file of parquet_read
Returns(req) ==
    _build_query(TABLE_EXPR, req.selected_columns, req.filters, req.group_by, req.order_by,
                 req.limit, req.offset, req.aggregates)

\* C24: when group_by is empty, what _build_query returns for any aggregates, those with a column or alias that fails the identifier pattern or a function that is not whitelisted included, is what it returns with aggregates left out: the same statement and parameters or the same error, no aggregate being validated, rejected or rendered
C24_AggregatesIgnored ==
    Built /\ call.group_by = <<>> =>
        /\ built[1] = Returns(WithoutAggregates(call))
        /\ BuiltError => ~startswith(built[1][2].error, "Unsupported aggregate")
        /\ BuiltQuery =>
              SelectList(Query) = (IF call.selected_columns # <<>>
                                   THEN join(", ", call.selected_columns) ELSE "*")

\* an aggregate with a forbidden column, function and alias, and no group_by
C24_Witness ==
    /\ BuiltQuery /\ call.group_by = <<>>
    /\ Len(call.aggregates) = 1 /\ call.aggregates[1] = [column |-> "a;", op |-> "Median", alias |-> "t;"]
    /\ Query = "SELECT a FROM read_parquet(?)"

\* the same aggregate is refused once there is a group_by
C24_RefusedWhenGrouped ==
    /\ BuiltError /\ call.group_by = <<"a">>
    /\ call.aggregates = <<[column |-> "b_1", op |-> "Median", alias |-> "t;"]>>
    /\ built[1][2].error = "Unsupported aggregate: median"

(***************************************************************************)
(* C25: one cache key for one request tuple.                               *)
(***************************************************************************)
\* the tuple a cache key is made of, the key, and what the provider is
\* asked for the request
Tuple(req) == <<ResolvedProvider(req), req.query, req.num_results, req.country, req.language>>

CacheKey(req) ==
    _cache_key(req.query, req.num_results, req.country, req.language, ResolvedProvider(req))

AskedFor(req) ==
    IF ResolvedProvider(req) = "google"
    THEN [q |-> req.query, num |-> req.num_results, lr |-> "lang_" \o req.language,
          gl |-> req.country]
    ELSE [q |-> req.query, count |-> req.num_results, country |-> req.country]

ServedFromCache == IsSearch /\ "results" \in DOMAIN result /\ ~Asked(io)

\* C25: no request that differs from the one of a call in the resolved provider, the query, num_results, the country or the language has the cache key of the call, and a call answered from the cache returns a response of its own provider that was fetched for its own query, num_results and country
C25_KeysInjective ==
    IsSearch /\ LooksUp(call) =>
        /\ \A req \in SearchRequests :
              LooksUp(req) /\ Tuple(req) # Tuple(call) => CacheKey(req) # CacheKey(call)
        /\ ServedFromCache =>
              /\ result.provider = ResolvedProvider(call)
              /\ result.results[1].params = AskedFor(call)

\* a search for "q" in the country "us|10|us" answered with the response
\* cached for the query "q|10|us" in the country "us"
C25_ServedForAnother ==
    /\ ServedFromCache
    /\ call.query = "q" /\ call.country = "us|10|us"
    /\ result.query = "q|10|us" /\ result.results[1].params.country = "us"

\* requests without "|" in a field: auto shares the entry of the provider
\* it resolved to
C25_AutoShares ==
    /\ ServedFromCache /\ call.provider = "auto" /\ ResolvedProvider(call) = "brave"
    /\ result.provider = "brave" /\ result.results[1].params = AskedFor(call)
    /\ \E i \in 1..Len(_CACHE) : _CACHE[i].key = "brave|q|10|us|en"

(***************************************************************************)
(* C26: what is cached is a response without "error".                      *)
(***************************************************************************)
\* the entries of a cache but the expired entry of a key, in their order
WithoutExpired(cache, key, now) ==
    LET Kept(e) == ~(e.key = key /\ CACHE_TTL_SECONDS > 0 /\ Stale(e, now))
    IN  SelectSeq(cache, Kept)

\* C26: no payload stored in _CACHE has the key "error"; a web_search call that returns an error leaves _CACHE as it was when the error is one of the query or of the credentials, and as it was but for the expired entry of its own key when the provider answered with an error status, timed out, failed on the network or raised anything else; and a call stores only when it asked the provider and returns the response without "error" that it stored
C26_OnlySuccessCached ==
    [][/\ \A i \in 1..Len(_CACHE') : "error" \notin DOMAIN _CACHE'[i].payload
       /\ SearchStep /\ "error" \in DOMAIN result' =>
             /\ ~Stored(io')
             /\ ~LooksUp(call') => _CACHE' = _CACHE /\ io' = <<>>
             /\ LooksUp(call') =>
                   /\ Asked(io')
                   /\ _CACHE' = WithoutExpired(_CACHE, CacheKey(call'), clock)
       /\ SearchStep /\ Stored(io') =>
             /\ Asked(io') /\ "error" \notin DOMAIN result'
             /\ \E i \in 1..Len(_CACHE') :
                   _CACHE'[i] = [key |-> CacheKey(call'), timestamp |-> clock,
                                 payload |-> result']]_vars

\* a provider answering 429 after an entry was cached and has expired
C26_Witness ==
    /\ IsSearch /\ result = [error |-> "Brave rate limit exceeded. Try again later."]
    /\ Len(io) = 2 /\ io[1].op = "pop" /\ io[1].why = "expired" /\ io[2].op = "httpx.get"
    /\ Len(_CACHE) = 1 /\ _CACHE[1].key # CacheKey(call)

(***************************************************************************)
(* C28: the size of the cache, and the calls, when web_search runs in      *)
(* several threads.                                                        *)
(***************************************************************************)
\* thread t has returned the error of an exception raised in _set_cache
FailedOnCache(t) ==
    /\ frames[t].pc = "done"
    /\ "error" \in DOMAIN frames[t].ret
    /\ startswith(frames[t].ret.error, "Search failed: ")

\* C28: under every interleaving of the steps of web_search calls in parallel threads the number of entries of _CACHE is at most CACHE_MAX_SIZE (none when it is zero), and no call returns the error of an exception raised because another call removed or replaced an entry between two of its steps
C28_BoundedInParallel ==
    /\ Len(_CACHE) <= (IF CACHE_MAX_SIZE > 0 THEN CACHE_MAX_SIZE ELSE 0)
    /\ \A t \in Threads : ~FailedOnCache(t)

\* two entries in a cache of at most one
C28_OverTheBound == CACHE_MAX_SIZE = 1 /\ Len(_CACHE) = 2

\* a call failed on min() of a dict another call had emptied
C28_MinOfEmpty ==
    \E t \in Threads :
        /\ frames[t].pc = "done"
        /\ frames[t].ret = [error |-> "Search failed: min() arg is an empty sequence"]

\* a call failed on the dict changing under its iterator
C28_ChangedUnderIteration ==
    \E t \in Threads :
        /\ frames[t].pc = "done"
        /\ frames[t].ret = [error |-> "Search failed: dictionary changed size during iteration"]

\* a call failed on its key function looking up a key another call removed
C28_KeyRemoved ==
    \E t \in Threads :
        /\ frames[t].pc = "done"
        /\ frames[t].ret = [error |-> "Search failed: KeyError"]

====
